---- MODULE Spec2Model ----
(***************************************************************************)
(* Verification model of the migration workflow's core:                    *)
(*   - the remediation loop of the orchestrator script (validate -> fix    *)
(*     -> re-validate, bounded by maxCycles) and its acceptance decision,  *)
(*   - the per-screen scorecard (generate-scorecard.ts) with the pixel and *)
(*     metrics comparison steps that feed it, and the batch summary,       *)
(*   - the execution-plan builder and the plan validator.                  *)
(* Rates (minPassRate, maxNeedsReviewRate) are percentages n/100; a        *)
(* comparison a/b >= n/100 is computed exactly as a*100 >= n*b, which is   *)
(* what IEEE division followed by comparison yields for these magnitudes.  *)
(* Visual diffs are in hundredths of a percent (200 = 2%).                 *)
(***************************************************************************)
EXTENDS Integers, Sequences, FiniteSets, TLC

\* ------------------------------------------------------------------ bounds
MaxCyclesBound == 3
MaxScreens == 2
MaxTotal == 2
MaxChecks == 1
MaxStates == 1
MaxViolations == 1
MaxTargets == 2
MaxEdges == 3
MaxFiles == 2

\* --------------------------------------------------------------- variables
VARIABLES
  pc,            \* position of the orchestrator script
  loop_enabled,  \* remediationLoop.enabled
  max_cycles,    \* remediationLoop.maxCycles
  policy,        \* [minPass, maxReview, reqZero, strictPass]
  cycle,         \* loop counter
  summary,       \* _composite-summary.json read by the decision script
  decision,      \* "accept" | "retry" | "none"
  exitCode,      \* process exit status, -1 while running
  validations,   \* number of validator runs so far
  fixes,         \* number of fix waits entered so far
  fixesDone,     \* number of fix waits completed so far
  lastStep,      \* last of "validate" / "fix" to have started
  evidence,      \* per screen: what the capture steps left on disk
  pixelFiles,    \* per screen: scorecards/<id>.json
  deltaDirs,     \* per screen: metrics-deltas/<id>/
  cards,         \* per screen: scorecards/<id>-composite.json
  spc,           \* position in the scoring pipeline
  manifests,     \* the manifest set, in the order the analyst lists it
  summaryRows,   \* _summary.json
  plan,          \* _execution-plan.json: the sequence plan.screens
  jsResult,      \* result of validate-execution-plan.js
  tsResult,      \* result of validateExecutionPlan in validate-manifests.ts
  ppc            \* position in the plan pipeline

ctlVars == <<pc, loop_enabled, max_cycles, policy, cycle, summary, decision,
             exitCode, validations, fixes, fixesDone, lastStep>>

scoreVars == <<evidence, pixelFiles, deltaDirs, cards, spc>>

planVars == <<manifests, summaryRows, plan, jsResult, tsResult, ppc>>

vars == <<ctlVars, scoreVars, planVars>>

\* ------------------------------------------------------------ value spaces
\* a plan validator that has not run
noResult == [ran |-> FALSE, valid |-> FALSE, errors |-> <<>>, cycle |-> <<>>]

\* no plan work in progress
PlanIdle ==
  /\ manifests = <<>>
  /\ summaryRows = <<>>
  /\ plan = <<>>
  /\ jsResult = noResult
  /\ tsResult = noResult
  /\ ppc = "idle"

Status == {"PASS", "NEEDS_REVIEW", "FAIL"}

RatePcts == {0, 5, 90, 100}

Policies ==
  [minPass : RatePcts, maxReview : RatePcts, reqZero : BOOLEAN, strictPass : BOOLEAN]

NoSummary == [total |-> 0, pass |-> 0, needsReview |-> 0, fail |-> 0, criticalFailures |-> 0]

\* The summary of the acceptance example: 19 of 20 screens pass, one fails.
ExampleSummary ==
  [total |-> 20, pass |-> 19, needsReview |-> 0, fail |-> 1, criticalFailures |-> 0]

\* Arbitrary summary files the decision script may be handed.
SummaryFiles ==
  [total : 0..MaxTotal, pass : 0..MaxTotal, needsReview : 0..MaxTotal,
   fail : 0..MaxTotal, criticalFailures : 0..MaxTotal] \cup {ExampleSummary}

\* ------------------------------------------------- the acceptance decision
Max2(a, b) == IF a >= b THEN a ELSE b

\* const total=Math.max(1,s.total||1)
DecisionTotal(s) == Max2(1, IF s.total = 0 THEN 1 ELSE s.total)

\* a decision that never looks at the critical-failure count
thresholdOkRatesOnly(s, p) ==
  /\ s.pass * 100 >= p.minPass * DecisionTotal(s)
  /\ s.needsReview * 100 <= p.maxReview * DecisionTotal(s)

thresholdOk(s, p) ==
  /\ s.pass * 100 >= p.minPass * DecisionTotal(s)
  /\ s.needsReview * 100 <= p.maxReview * DecisionTotal(s)
  /\ (~p.reqZero \/ s.criticalFailures = 0)

\* a strict check that tolerates screens in review
strictOkNoFail(s) == s.fail = 0

strictOk(s) == s.fail = 0 /\ s.needsReview = 0

Decision(s, p) ==
  IF (IF p.strictPass THEN strictOk(s) ELSE thresholdOk(s, p)) THEN "accept" ELSE "retry"

\* ------------------------------------------------- pixel comparison step
Viewports == <<1920, 1440, 1024, 768>>

VpIdx == 1..Len(Viewports)

\* A baseline/react screenshot pair of one viewport: present (both files
\* exist), sameSize (equal width and height), diff (differing pixels in
\* hundredths of a percent).
NoShot == [present |-> FALSE, sameSize |-> TRUE, diff |-> 0]

Shot(d) == [present |-> TRUE, sameSize |-> TRUE, diff |-> d]

WrongSizeShot == [present |-> TRUE, sameSize |-> FALSE, diff |-> 0]

comparePair(shot) == IF ~shot.sameSize THEN 10000 ELSE shot.diff

classify(diff) ==
  IF diff < 200 THEN "PASS" ELSE IF diff <= 1000 THEN "NEEDS_REVIEW" ELSE "FAIL"

RECURSIVE worstOf(_, _)
worstOf(shots, n) ==
  IF n = 0 THEN 0
  ELSE IF shots[n].present THEN Max2(worstOf(shots, n - 1), comparePair(shots[n]))
       ELSE worstOf(shots, n - 1)

comparedPairsOf(shots) == Cardinality({i \in DOMAIN shots : shots[i].present})

missingPairsOf(shots) == Cardinality({i \in DOMAIN shots : ~shots[i].present})

\* The per-screen result file artifacts/validation/scorecards/<id>.json.
pixelCompare(shots) ==
  [exists |-> TRUE,
   maxDiffPercentage |-> worstOf(shots, Len(shots)),
   comparedPairs |-> comparedPairsOf(shots),
   missingPairs |-> missingPairsOf(shots),
   overall |-> IF comparedPairsOf(shots) = 0 THEN "FAIL"
               ELSE IF missingPairsOf(shots) > 0 THEN "NEEDS_REVIEW"
               ELSE classify(worstOf(shots, Len(shots)))]

NoPixelFile ==
  [exists |-> FALSE, maxDiffPercentage |-> 0, comparedPairs |-> 0, missingPairs |-> 0,
   overall |-> "PASS"]

\* ----------------------------------------------- metrics comparison step
MetricKeys ==
  <<"documentWidth", "documentHeight", "elementCount", "headerCount", "buttonCount",
    "inputCount">>

\* thresholds in tenths: critical 0.2 / warn 0.1 for the first three keys,
\* critical 0.5 / warn 0.3 for the counts of headers, buttons and inputs
checks ==
  [k \in 1..Len(MetricKeys) |->
     IF k <= 3 THEN [key |-> MetricKeys[k], critical |-> 2, warn |-> 1]
     ELSE [key |-> MetricKeys[k], critical |-> 5, warn |-> 3]]

Abs(x) == IF x < 0 THEN -x ELSE x

\* pctDelta(a, b) >= t/10, with pctDelta = |b - a| / max(1, a)
pctDeltaAtLeast(a, b, t) == Abs(b - a) * 10 >= t * Max2(1, a)

RECURSIVE compareMetricsFrom(_, _, _)
compareMetricsFrom(base, react, k) ==
  IF k > Len(checks) THEN <<>>
  ELSE LET c == checks[k]
           rest == compareMetricsFrom(base, react, k + 1)
       IN IF pctDeltaAtLeast(base[c.key], react[c.key], c.critical)
            THEN <<[severity |-> "critical", metric |-> c.key]>> \o rest
          ELSE IF pctDeltaAtLeast(base[c.key], react[c.key], c.warn)
            THEN <<[severity |-> "warn", metric |-> c.key]>> \o rest
          ELSE rest

compareMetrics(base, react) ==
  LET deltas == compareMetricsFrom(base, react, 1)
  IN IF Len(deltas) = 0 THEN <<[severity |-> "info", metric |-> "all"]>> ELSE deltas

MissingMetricsDelta == <<[severity |-> "critical", metric |-> "metrics_artifact"]>>

\* One delta file per viewport; the directory is always created.
compareMetricsMain(metrics) ==
  [exists |-> TRUE,
   files |-> [i \in DOMAIN metrics |->
                IF ~metrics[i].present THEN MissingMetricsDelta
                ELSE compareMetrics(metrics[i].base, metrics[i].react)]]

NoDeltaDir == [exists |-> FALSE, files |-> <<>>]

criticalIn(file) == Cardinality({j \in DOMAIN file : file[j].severity = "critical"})

RECURSIVE criticalDeltasUpTo(_, _)
criticalDeltasUpTo(files, n) ==
  IF n = 0 THEN 0 ELSE criticalDeltasUpTo(files, n - 1) + criticalIn(files[n])

criticalDeltasOf(dir) ==
  IF dir.exists THEN criticalDeltasUpTo(dir.files, Len(dir.files)) ELSE 0

\* ----------------------------------------------------- per-screen scoring
\* Number.MAX_SAFE_INTEGER (2^53 - 1) is only ever compared with the two
\* ceilings; the model uses the largest integer TLC represents.
MAX_SAFE_INTEGER == 2147483647

LoadTimeCeilingMs == 3000

BundleCeilingKb == 250

passFailOrReview(hasData, passCondition) ==
  IF ~hasData THEN "NEEDS_REVIEW" ELSE IF passCondition THEN "PASS" ELSE "FAIL"

\* x || fallback for a number x
OrElse(x, fallback) == IF x = 0 THEN fallback ELSE x

\* The files score() reads for one screen:
\*   pixel     scorecards/<id>.json (default { overall: 'PASS' } when absent)
\*   deltaDir  metrics-deltas/<id>/
\*   e2e, a11y, perf   the screen's entry of the three summary.json files
\*   expectedStates    manifest.uiStates.length
\*   capturedStates    number of .png files under screenshots/<id>/1920
dimsOf(f) ==
  [visualFidelity |->
     IF f.pixel.overall = "FAIL" THEN "FAIL"
     ELSE IF f.pixel.overall = "NEEDS_REVIEW" THEN "NEEDS_REVIEW" ELSE "PASS",
   structuralParity |-> passFailOrReview(f.deltaDir.exists, criticalDeltasOf(f.deltaDir) = 0),
   functionalParity |-> passFailOrReview(f.e2e.present, f.e2e.failed = 0),
   uiStateCoverage |->
     passFailOrReview(f.expectedStates > 0, f.capturedStates >= f.expectedStates),
   accessibilityBaseline |->
     passFailOrReview(f.a11y.present, f.a11y.criticalViolations = 0),
   performanceGuardrail |->
     passFailOrReview(f.perf.present,
       /\ OrElse(f.perf.loadTimeMs, MAX_SAFE_INTEGER) <= LoadTimeCeilingMs
       /\ OrElse(f.perf.maxBundleKb, MAX_SAFE_INTEGER) <= BundleCeilingKb)]

DimNames ==
  {"visualFidelity", "structuralParity", "functionalParity", "uiStateCoverage",
   "accessibilityBaseline", "performanceGuardrail"}

\* a scorer that lets NEEDS_REVIEW win over FAIL
overallOfReviewFirst(dims) ==
  IF \E d \in DOMAIN dims : dims[d] = "NEEDS_REVIEW" THEN "NEEDS_REVIEW"
  ELSE IF \E d \in DOMAIN dims : dims[d] = "FAIL" THEN "FAIL"
  ELSE "PASS"

overallOf(dims) ==
  IF \E d \in DOMAIN dims : dims[d] = "FAIL" THEN "FAIL"
  ELSE IF \E d \in DOMAIN dims : dims[d] = "NEEDS_REVIEW" THEN "NEEDS_REVIEW"
  ELSE "PASS"

score(f) == [overall |-> overallOf(dimsOf(f)), dimensions |-> dimsOf(f)]

\* ------------------------------------------------------------ batch summary
countCards(flags) == Cardinality({i \in DOMAIN flags : flags[i]})

\* the summary's critical count taken from the four critical dimensions alone
isCriticalFailureDimsOnly(c) ==
  \/ c.dimensions.structuralParity = "FAIL"
  \/ c.dimensions.functionalParity = "FAIL"
  \/ c.dimensions.accessibilityBaseline = "FAIL"
  \/ c.dimensions.performanceGuardrail = "FAIL"

isCriticalFailure(c) ==
  \/ c.overall = "FAIL"
  \/ c.dimensions.structuralParity = "FAIL"
  \/ c.dimensions.functionalParity = "FAIL"
  \/ c.dimensions.accessibilityBaseline = "FAIL"
  \/ c.dimensions.performanceGuardrail = "FAIL"

summarize(cs) ==
  [total |-> Len(cs),
   pass |-> countCards([i \in DOMAIN cs |-> cs[i].overall = "PASS"]),
   needsReview |-> countCards([i \in DOMAIN cs |-> cs[i].overall = "NEEDS_REVIEW"]),
   fail |-> countCards([i \in DOMAIN cs |-> cs[i].overall = "FAIL"]),
   criticalFailures |-> countCards([i \in DOMAIN cs |-> isCriticalFailure(cs[i])])]

\* ------------------------------------------------------- evidence spaces
AllVp(x) == [i \in VpIdx |-> x]

FirstVp(x, y) == [i \in VpIdx |-> IF i = 1 THEN x ELSE y]

ShotSets ==
  {AllVp(NoShot), AllVp(Shot(0)), AllVp(Shot(500)), AllVp(Shot(1500)),
   FirstVp(WrongSizeShot, Shot(0)), FirstVp(NoShot, Shot(0)),
   AllVp(Shot(199)), AllVp(Shot(200)), AllVp(Shot(1000)), AllVp(Shot(1001)),
   FirstVp(Shot(1500), Shot(0)), FirstVp(NoShot, Shot(1500)),
   FirstVp(NoShot, WrongSizeShot)}

BaseMetrics == [k \in {MetricKeys[i] : i \in DOMAIN MetricKeys} |-> 10]

NoMetrics == [present |-> FALSE, base |-> BaseMetrics, react |-> BaseMetrics]

SameMetrics == [present |-> TRUE, base |-> BaseMetrics, react |-> BaseMetrics]

\* elementCount 10 -> 12 is a 20% delta: critical
DriftedMetrics ==
  [present |-> TRUE, base |-> BaseMetrics,
   react |-> [BaseMetrics EXCEPT !["elementCount"] = 12]]

MetricsSets ==
  {AllVp(NoMetrics), AllVp(SameMetrics), AllVp(DriftedMetrics),
   FirstVp(NoMetrics, SameMetrics)}

NoE2e == [present |-> FALSE, passed |-> 0, failed |-> 0]

E2eEntries == {NoE2e} \cup [present : {TRUE}, passed : 0..MaxChecks, failed : 0..MaxChecks]

NoA11y == [present |-> FALSE, criticalViolations |-> 0]

A11yEntries == {NoA11y} \cup [present : {TRUE}, criticalViolations : 0..MaxViolations]

NoPerf == [present |-> FALSE, loadTimeMs |-> 0, maxBundleKb |-> 0]

Perf(l, b) == [present |-> TRUE, loadTimeMs |-> l, maxBundleKb |-> b]

PerfEntries ==
  {NoPerf, Perf(1200, 80), Perf(3001, 80), Perf(1200, 251), Perf(3000, 250), Perf(1200, 0),
   Perf(0, 80)}

\* The react screenshot of viewport 1920 is one of the captured-state
\* images, so a compared 1920 pair implies at least one captured state.
EvidenceSet ==
  {ev \in [shots : ShotSets, metrics : MetricsSets, e2e : E2eEntries,
           expectedStates : 0..MaxStates, capturedStates : 0..MaxStates,
           a11y : A11yEntries, perf : PerfEntries] :
     ev.shots[1].present => ev.capturedStates >= 1}

Ev(sh, me, e, es, cs, a, p) ==
  [shots |-> sh, metrics |-> me, e2e |-> e, expectedStates |-> es, capturedStates |-> cs,
   a11y |-> a, perf |-> p]

PassedE2e == [present |-> TRUE, passed |-> 1, failed |-> 0]

FailedE2e == [present |-> TRUE, passed |-> 0, failed |-> 1]

CleanA11y == [present |-> TRUE, criticalViolations |-> 0]

\* Sample screens: all clean (1.5% diff); only a 15% visual diff; a 0.5%
\* diff with a critical structural delta; nothing captured at all; a failed
\* E2E check; a 5% visual diff (review).
CleanScreen ==
  Ev(AllVp(Shot(150)), AllVp(SameMetrics), PassedE2e, 1, 1, CleanA11y, Perf(1200, 80))

VisualOnlyScreen ==
  Ev(AllVp(Shot(1500)), AllVp(SameMetrics), PassedE2e, 1, 1, CleanA11y, Perf(1200, 80))

StructuralScreen ==
  Ev(AllVp(Shot(50)), AllVp(DriftedMetrics), PassedE2e, 1, 1, CleanA11y, Perf(1200, 80))

UncapturedScreen == Ev(AllVp(NoShot), AllVp(NoMetrics), NoE2e, 0, 0, NoA11y, NoPerf)

FunctionalScreen ==
  Ev(AllVp(Shot(150)), AllVp(SameMetrics), FailedE2e, 1, 1, CleanA11y, Perf(1200, 80))

ReviewScreen ==
  Ev(AllVp(Shot(500)), AllVp(SameMetrics), PassedE2e, 1, 1, CleanA11y, Perf(1200, 80))

EvidenceSamples ==
  {CleanScreen, VisualOnlyScreen, StructuralScreen, UncapturedScreen, FunctionalScreen,
   ReviewScreen}

\* ------------------------------------------------- the scoring pipeline
filesOf(ev, pixel, dir) ==
  [pixel |-> pixel, deltaDir |-> dir, e2e |-> ev.e2e, expectedStates |-> ev.expectedStates,
   capturedStates |-> ev.capturedStates, a11y |-> ev.a11y, perf |-> ev.perf]

\* pixel-compare.ts main: one result file per screen
PixelCompareMain ==
  /\ spc = "pixel"
  /\ pixelFiles' = [i \in DOMAIN evidence |-> pixelCompare(evidence[i].shots)]
  /\ spc' = "metrics"
  /\ UNCHANGED <<ctlVars, planVars, evidence, deltaDirs, cards>>

\* the scorecard generator run without a preceding pixel comparison
SkipPixelCompare ==
  /\ spc = "pixel"
  /\ spc' = "metrics"
  /\ UNCHANGED <<ctlVars, planVars, evidence, pixelFiles, deltaDirs, cards>>

\* compare-metrics.ts main: one delta directory per screen
CompareMetricsMain ==
  /\ spc = "metrics"
  /\ deltaDirs' = [i \in DOMAIN evidence |-> compareMetricsMain(evidence[i].metrics)]
  /\ spc' = "score"
  /\ UNCHANGED <<ctlVars, planVars, evidence, pixelFiles, cards>>

SkipCompareMetrics ==
  /\ spc = "metrics"
  /\ spc' = "score"
  /\ UNCHANGED <<ctlVars, planVars, evidence, pixelFiles, deltaDirs, cards>>

GenerateScorecardSharedPixel ==
  /\ spc = "score"
  /\ cards' = [i \in DOMAIN evidence |-> score(filesOf(evidence[i], pixelFiles[1], deltaDirs[i]))]
  /\ summary' = summarize(cards')
  /\ spc' = "scored"
  /\ UNCHANGED <<pc, loop_enabled, max_cycles, policy, cycle, decision, exitCode,
                 validations, fixes, fixesDone, lastStep>>
  /\ UNCHANGED <<planVars, evidence, pixelFiles, deltaDirs>>

\* generate-scorecard.ts main: cards = ids.map(score), then the summary
GenerateScorecard ==
  /\ spc = "score"
  /\ cards' = [i \in DOMAIN evidence |-> score(filesOf(evidence[i], pixelFiles[i], deltaDirs[i]))]
  /\ summary' = summarize(cards')
  /\ spc' = "scored"
  /\ UNCHANGED <<pc, loop_enabled, max_cycles, policy, cycle, decision, exitCode,
                 validations, fixes, fixesDone, lastStep>>
  /\ UNCHANGED <<planVars, evidence, pixelFiles, deltaDirs>>

ScoreNext ==
  \/ PixelCompareMain
  \/ SkipPixelCompare
  \/ CompareMetricsMain
  \/ SkipCompareMetrics
  \/ GenerateScorecard

ScoreIdle ==
  /\ evidence = <<>>
  /\ pixelFiles = <<>>
  /\ deltaDirs = <<>>
  /\ cards = <<>>
  /\ spc = "idle"

DefaultPolicy == [minPass |-> 100, maxReview |-> 0, reqZero |-> TRUE, strictPass |-> FALSE]

CtlIdle ==
  /\ pc = "idle"
  /\ loop_enabled = TRUE
  /\ max_cycles = 3
  /\ policy = DefaultPolicy
  /\ cycle = 1
  /\ summary = NoSummary
  /\ decision = "none"
  /\ exitCode = -1
  /\ validations = 0
  /\ fixes = 0
  /\ fixesDone = 0
  /\ lastStep = "none"

ScoreInitOver(n, S) ==
  /\ evidence \in [1..n -> S]
  /\ pixelFiles = [i \in 1..n |-> NoPixelFile]
  /\ deltaDirs = [i \in 1..n |-> NoDeltaDir]
  /\ cards = <<>>
  /\ spc = "pixel"

\* one screen, every combination of evidence
ScoreInit == CtlIdle /\ PlanIdle /\ ScoreInitOver(1, EvidenceSet)

SpecScore == ScoreInit /\ [][ScoreNext]_vars

\* a batch of sample screens
BatchInit == CtlIdle /\ PlanIdle /\ \E n \in 0..MaxScreens : ScoreInitOver(n, EvidenceSamples)

SpecBatch == BatchInit /\ [][ScoreNext]_vars

\* ------------------------------------------------------ execution plan
\* Screen ids in the order localeCompare and the default array sort put them.
ScreenIdOrder == <<"a", "b", "c">>

ScreenIdSet == {ScreenIdOrder[i] : i \in DOMAIN ScreenIdOrder}

IdRank(id) == CHOOSE i \in DOMAIN ScreenIdOrder : ScreenIdOrder[i] = id

RouteOf(id) == [a |-> "/A/Index", b |-> "/B/Index", c |-> "/C/Index"][id]

RouteSet == {RouteOf(id) : id \in ScreenIdSet}

phaseOrder == <<"foundation", "standard", "guided">>

complexityOrder == <<"low", "medium", "high">>

\* rank(order, v): the index of v, MAX_SAFE_INTEGER when v is not listed
rank(order, v) ==
  IF \E i \in DOMAIN order : order[i] = v
  THEN (CHOOSE i \in DOMAIN order : order[i] = v) - 1
  ELSE MAX_SAFE_INTEGER

\* PHASE_RANK / COMPLEXITY_RANK of the builder (valid values only)
PHASE_RANK(v) == rank(phaseOrder, v)

COMPLEXITY_RANK(v) == rank(complexityOrder, v)

\* a.screenId.localeCompare(b.screenId)
localeCompare(x, y) == IdRank(x) - IdRank(y)

\* The sort comparators compare two entries field by field; key is the
\* tuple of compared fields and cmpKeys the first non-zero difference.
RECURSIVE cmpKeysFrom(_, _, _)
cmpKeysFrom(k1, k2, i) ==
  IF i > Len(k1) THEN 0
  ELSE IF k1[i] - k2[i] # 0 THEN k1[i] - k2[i]
  ELSE cmpKeysFrom(k1, k2, i + 1)

cmpKeys(k1, k2) == cmpKeysFrom(k1, k2, 1)

\* Array.prototype.sort: the stable sort of keyed items [key, item]
RECURSIVE insertSorted(_, _)
insertSorted(sorted, x) ==
  IF sorted = <<>> THEN <<x>>
  ELSE IF cmpKeys(sorted[Len(sorted)].key, x.key) <= 0 THEN Append(sorted, x)
  ELSE Append(insertSorted(SubSeq(sorted, 1, Len(sorted) - 1), x), sorted[Len(sorted)])

RECURSIVE stableSort(_)
stableSort(xs) ==
  IF xs = <<>> THEN <<>>
  ELSE insertSorted(stableSort(SubSeq(xs, 1, Len(xs) - 1)), xs[Len(xs)])

sortBy(keyed) ==
  LET sorted == stableSort(keyed) IN [i \in DOMAIN sorted |-> sorted[i].item]

\* Array.from(deps).sort(): the ids of a set in default sort order
RECURSIVE sortedIds(_)
sortedIds(ids) ==
  IF ids = {} THEN <<>>
  ELSE LET m == CHOOSE x \in ids : \A y \in ids : IdRank(x) <= IdRank(y)
       IN <<m>> \o sortedIds(ids \ {m})

\* new Map(manifests.map(m => [m.route, m.screenId])): the last manifest with
\* a route owns it
byRoute(ms, route) ==
  IF \E i \in DOMAIN ms : ms[i].route = route
  THEN ms[CHOOSE i \in DOMAIN ms :
            ms[i].route = route /\ \A j \in DOMAIN ms : ms[j].route = route => j <= i].screenId
  ELSE ""

phaseFor(m) == IF m.complexity = "high" THEN "guided" ELSE "standard"

\* the dependencies derived from the navigation targets of one manifest
depsOf(ms, m) ==
  {byRoute(ms, t) : t \in {u \in m.targets : byRoute(ms, u) # "" /\ byRoute(ms, u) # m.screenId}}

\* a builder that ranks the dependency count before the complexity
planKeyDepsFirst(x) ==
  <<PHASE_RANK(x.phase), Len(x.dependencies), COMPLEXITY_RANK(x.complexity),
    localeCompare(x.screenId, ScreenIdOrder[1])>>

\* a builder whose comparator stops after the dependency count
planKeyNoScreenId(x) ==
  <<PHASE_RANK(x.phase), COMPLEXITY_RANK(x.complexity), Len(x.dependencies)>>

\* the fields the builder's comparator compares, in order: phaseCmp,
\* complexityCmp, depCmp, screenId.localeCompare
planKey(x) ==
  <<PHASE_RANK(x.phase), COMPLEXITY_RANK(x.complexity), Len(x.dependencies),
    localeCompare(x.screenId, ScreenIdOrder[1])>>

makeExecutionPlan(ms) ==
  LET screens == [i \in DOMAIN ms |->
                    [screenId |-> ms[i].screenId, route |-> ms[i].route,
                     complexity |-> ms[i].complexity, phase |-> phaseFor(ms[i]),
                     dependencies |-> sortedIds(depsOf(ms, ms[i]))]]
  IN sortBy([i \in DOMAIN screens |-> [key |-> planKey(screens[i]), item |-> screens[i]]])

\* the rows the analyst writes to _summary.json
summaryOf(ms) ==
  [i \in DOMAIN ms |->
     [screenId |-> ms[i].screenId, route |-> ms[i].route, complexity |-> ms[i].complexity]]

\* -------------------------------------------------------- plan validation
Err(kind, screenId, dep) == [kind |-> kind, screenId |-> screenId, dep |-> dep]

ErrIf(cond, e) == IF cond THEN <<e>> ELSE <<>>

RECURSIVE flattenFirstOnly(_, _)
flattenFirstOnly(f, n) ==
  IF n = 0 THEN <<>>
  ELSE IF flattenFirstOnly(f, n - 1) # <<>> THEN flattenFirstOnly(f, n - 1)
  ELSE f[n]

\* the concatenation of f[1] .. f[n]
RECURSIVE flatten(_, _)
flatten(f, n) == IF n = 0 THEN <<>> ELSE flatten(f, n - 1) \o f[n]

\* readPrimaryRoute: primaryRoute if it is a non-empty string, else route
readPrimaryRoute(obj) ==
  IF "primaryRoute" \in DOMAIN obj /\ obj.primaryRoute # "" THEN obj.primaryRoute
  ELSE IF "route" \in DOMAIN obj THEN obj.route
  ELSE ""

\* a Map built from rows keyed by screenId: the last row of an id wins
hasId(rows, id) == \E i \in DOMAIN rows : rows[i].screenId = id

rowOf(rows, id) ==
  rows[CHOOSE i \in DOMAIN rows :
         rows[i].screenId = id /\ \A j \in DOMAIN rows : rows[j].screenId = id => j <= i]

idsOf(rows) == {rows[i].screenId : i \in DOMAIN rows}

\* the dependency graph of a plan: graph.set(screenId, deps) per item; keys
\* are kept in the order of their first insertion
RECURSIVE graphKeys(_, _)
graphKeys(items, n) ==
  IF n = 0 THEN <<>>
  ELSE IF hasId(SubSeq(items, 1, n - 1), items[n].screenId) THEN graphKeys(items, n - 1)
  ELSE Append(graphKeys(items, n - 1), items[n].screenId)

graphOf(items) ==
  [keys |-> graphKeys(items, Len(items)),
   deps |-> [id \in idsOf(items) |-> rowOf(items, id).dependencies]]

graphGet(graph, node) == IF node \in DOMAIN graph.deps THEN graph.deps[node] ELSE <<>>

inSeq(xs, x) == \E i \in DOMAIN xs : xs[i] = x

indexOf(xs, x) == CHOOSE i \in DOMAIN xs : xs[i] = x /\ \A j \in DOMAIN xs : xs[j] = x => i <= j

\* detectCycle: depth-first search with the set of visited nodes and the
\* trail of the nodes on the recursion stack; st.cycle is <<>> for null
RECURSIVE dfs(_, _, _)
RECURSIVE dfsDeps(_, _, _, _)
dfs(graph, node, st) ==
  dfsDeps(graph, node, 1,
          [visited |-> st.visited \cup {node}, trail |-> Append(st.trail, node),
           cycle |-> <<>>])

dfsDeps(graph, node, k, st) ==
  LET deps == graphGet(graph, node)
  IN IF k > Len(deps)
       THEN [st EXCEPT !.trail = SubSeq(st.trail, 1, Len(st.trail) - 1)]
     ELSE IF deps[k] \notin st.visited
       THEN LET r == dfs(graph, deps[k], st)
            IN IF r.cycle # <<>> THEN r ELSE dfsDeps(graph, node, k + 1, r)
     ELSE IF inSeq(st.trail, deps[k])
       THEN [st EXCEPT !.cycle =
               Append(SubSeq(st.trail, indexOf(st.trail, deps[k]), Len(st.trail)), deps[k])]
     ELSE dfsDeps(graph, node, k + 1, st)

RECURSIVE detectFrom(_, _, _)
detectFrom(graph, i, st) ==
  IF i > Len(graph.keys) THEN <<>>
  ELSE IF graph.keys[i] \in st.visited THEN detectFrom(graph, i + 1, st)
  ELSE LET r == dfs(graph, graph.keys[i], st)
       IN IF r.cycle # <<>> THEN r.cycle ELSE detectFrom(graph, i + 1, r)

detectCycle(graph) == detectFrom(graph, 1, [visited |-> {}, trail |-> <<>>, cycle |-> <<>>])
expectedKeyNoDepCount(x) ==
  <<rank(phaseOrder, x.phase), rank(complexityOrder, x.complexity),
    localeCompare(x.screenId, ScreenIdOrder[1])>>

\* the fields the validators' comparator compares
expectedKey(x) ==
  <<rank(phaseOrder, x.phase), rank(complexityOrder, x.complexity), Len(x.dependencies),
    localeCompare(x.screenId, ScreenIdOrder[1])>>

expectedOrderOfAsListed(items) == [i \in DOMAIN items |-> items[i].screenId]

expectedOrderOf(items) ==
  LET sorted == sortBy([i \in DOMAIN items |-> [key |-> expectedKey(items[i]), item |-> items[i]]])
  IN [i \in DOMAIN sorted |-> sorted[i].screenId]

actualOrderOf(items) == [i \in DOMAIN items |-> items[i].screenId]

\* Array.prototype.join: the elements with the separator between them; a
\* screenId is one token, it holds no separator (toKebab, part_002 line 13)
RECURSIVE join(_, _)
join(xs, sep) ==
  IF xs = <<>> THEN <<>>
  ELSE IF Len(xs) = 1 THEN <<xs[1]>>
  ELSE <<xs[1], sep>> \o join(Tail(xs), sep)

depErrorsJsNoSelf(item, rows) ==
  LET deps == item.dependencies
  IN flatten([k \in DOMAIN deps |->
                ErrIf(inSeq(SubSeq(deps, 1, k - 1), deps[k]),
                      Err("DuplicateDependency", item.screenId, deps[k]))
                \o ErrIf(~hasId(rows, deps[k]),
                         Err("UnknownDependency", item.screenId, deps[k]))],
             Len(deps))

\* the checks of one dependency list (lines 131-137 of the plan validator)
depErrorsJs(item, rows) ==
  LET deps == item.dependencies
  IN flatten([k \in DOMAIN deps |->
                ErrIf(inSeq(SubSeq(deps, 1, k - 1), deps[k]),
                      Err("DuplicateDependency", item.screenId, deps[k]))
                \o ErrIf(deps[k] = item.screenId, Err("SelfDependency", item.screenId, deps[k]))
                \o ErrIf(~hasId(rows, deps[k]),
                         Err("UnknownDependency", item.screenId, deps[k]))],
             Len(deps))

\* the checks of one plan item (lines 98-138)
itemErrorsJs(items, i, rows) ==
  LET item == items[i]
      id == item.screenId
  IN ErrIf(hasId(SubSeq(items, 1, i - 1), id), Err("DuplicateScreenId", id, ""))
     \o ErrIf(~hasId(rows, id), Err("UnknownScreenId", id, ""))
     \o (IF hasId(rows, id)
         THEN ErrIf(readPrimaryRoute(item) # readPrimaryRoute(rowOf(rows, id)),
                    Err("RouteMismatch", id, ""))
              \o ErrIf(item.complexity # rowOf(rows, id).complexity,
                       Err("ComplexityMismatch", id, ""))
         ELSE <<>>)
     \o ErrIf(~inSeq(phaseOrder, item.phase), Err("InvalidPhase", id, ""))
     \o ErrIf(~inSeq(complexityOrder, item.complexity), Err("InvalidComplexity", id, ""))
     \o depErrorsJs(item, rows)

missingErrorsNone(items, rows) == <<>>

missingErrors(items, rows) ==
  LET missing == sortedIds(idsOf(rows) \ idsOf(items))
  IN [k \in DOMAIN missing |-> Err("MissingScreen", missing[k], "")]

\* validate-execution-plan.js main on a plan and a summary that exist
validatePlanJs(items, rows) ==
  IF Len(items) = 0
  THEN [ran |-> TRUE, valid |-> FALSE, errors |-> <<Err("EmptyPlan", "", "")>>,
        cycle |-> <<>>]
  ELSE LET cyc == detectCycle(graphOf(items))
           errors ==
             flatten([i \in DOMAIN items |-> itemErrorsJs(items, i, rows)], Len(items))
             \o missingErrors(items, rows)
             \o ErrIf(cyc # <<>>, Err("Cycle", "", ""))
             \o ErrIf(join(expectedOrderOf(items), "|") # join(actualOrderOf(items), "|"),
                      Err("Order", "", ""))
       IN [ran |-> TRUE, valid |-> (Len(errors) = 0), errors |-> errors, cycle |-> cyc]

\* the checks of one dependency list (lines 166-190 of validate-manifests.ts)
depErrorsTs(item, rows) ==
  LET deps == item.dependencies
  IN flatten([k \in DOMAIN deps |->
                ErrIf(inSeq(SubSeq(deps, 1, k - 1), deps[k]),
                      Err("DuplicateDependency", item.screenId, deps[k]))
                \o ErrIf(deps[k] = item.screenId, Err("SelfDependency", item.screenId, deps[k]))
                \o ErrIf(~hasId(rows, deps[k]),
                         Err("UnknownDependency", item.screenId, deps[k]))],
             Len(deps))

\* the checks of one plan item (lines 141-213)
itemErrorsTs(items, i, ms) ==
  LET item == items[i]
      id == item.screenId
  IN ErrIf(hasId(SubSeq(items, 1, i - 1), id), Err("DuplicateScreenId", id, ""))
     \o ErrIf(~hasId(ms, id), Err("UnknownScreenId", id, ""))
     \o depErrorsTs(item, ms)
     \o (IF hasId(ms, id)
         THEN ErrIf(readPrimaryRoute(item) # readPrimaryRoute(rowOf(ms, id)),
                    Err("RouteMismatch", id, ""))
              \o ErrIf(item.complexity # rowOf(ms, id).complexity,
                       Err("ComplexityMismatch", id, ""))
         ELSE <<>>)

\* validateExecutionPlan of validate-manifests.ts on a plan file that exists;
\* ms is the manifest set (manifestById, the last manifest of an id wins) and
\* schemaValid the verdict of the compiled plan schema, a file read at run
\* time (lines 123-134)
validateExecutionPlan(items, ms, schemaValid) ==
  IF ~schemaValid
  THEN [ran |-> TRUE, valid |-> FALSE, errors |-> <<Err("Schema", "", "")>>, cycle |-> <<>>]
  ELSE LET cyc == detectCycle(graphOf(items))
           errors ==
             flatten([i \in DOMAIN items |-> itemErrorsTs(items, i, ms)], Len(items))
             \o missingErrors(items, ms)
             \o ErrIf(cyc # <<>>, Err("Cycle", "", ""))
             \o ErrIf(join(expectedOrderOf(items), "|") # join(actualOrderOf(items), "|"),
                      Err("Order", "", ""))
       IN [ran |-> TRUE, valid |-> (Len(errors) = 0), errors |-> errors, cycle |-> cyc]

\* -------------------------------------------------- the plan pipeline
Complexities == {complexityOrder[i] : i \in DOMAIN complexityOrder}

TargetSets == {t \in SUBSET RouteSet : Cardinality(t) <= MaxTargets}

\* sequences of distinct screen ids
IdSeqs ==
  {q \in UNION {[1..n -> ScreenIdSet] : n \in 0..Len(ScreenIdOrder)} :
     \A i, j \in DOMAIN q : i # j => q[i] # q[j]}

\* Manifest sets as the analyst emits them: distinct screen ids, one route
\* per screen, a complexity of the enumeration, navigation targets among
\* the routes of the application (a route without a manifest in the set is
\* a link that leaves the set).
ManifestSeqs(q) ==
  {[i \in DOMAIN q |->
      [screenId |-> q[i], route |-> RouteOf(q[i]), complexity |-> cx[i], targets |-> tg[i]]] :
     cx \in [DOMAIN q -> Complexities], tg \in [DOMAIN q -> TargetSets]}

PlanInit ==
  /\ CtlIdle
  /\ ScoreIdle
  /\ \E q \in IdSeqs : manifests \in ManifestSeqs(q)
  /\ summaryRows = <<>>
  /\ plan = <<>>
  /\ jsResult = noResult
  /\ tsResult = noResult
  /\ ppc = "build"

\* the analyst's main: writes _summary.json and _execution-plan.json
BuildPlan ==
  /\ ppc = "build"
  /\ summaryRows' = summaryOf(manifests)
  /\ plan' = makeExecutionPlan(manifests)
  /\ ppc' = "validate"
  /\ UNCHANGED <<ctlVars, scoreVars, manifests, jsResult, tsResult>>

\* validate-execution-plan.js
ValidatePlanJs ==
  /\ ppc = "validate"
  /\ ~jsResult.ran
  /\ jsResult' = validatePlanJs(plan, summaryRows)
  /\ UNCHANGED <<ctlVars, scoreVars, manifests, summaryRows, plan, tsResult, ppc>>

\* validate-manifests.ts (it stops before the plan when no manifest exists)
ValidatePlanTs ==
  /\ ppc = "validate"
  /\ ~tsResult.ran
  /\ Len(manifests) > 0
  /\ \E schemaValid \in BOOLEAN :
       tsResult' = validateExecutionPlan(plan, manifests, schemaValid)
  /\ UNCHANGED <<ctlVars, scoreVars, manifests, summaryRows, plan, jsResult, ppc>>

PlanNext == BuildPlan \/ ValidatePlanJs \/ ValidatePlanTs

SpecPlan == PlanInit /\ [][PlanNext]_vars

\* ------------------------------------- the validators on any plan file
\* The validators read whatever _execution-plan.json holds. Plan files here
\* have up to Len(ScreenIdOrder) entries, screen ids may repeat, and
\* dependencies may name the entry itself, repeat, or name a screen that no
\* manifest describes.

\* dependency entries are pairs <<position, dependency>>, listed position
\* by position
grouped(e) == \A i, j \in DOMAIN e : i < j => e[i][1] <= e[j][1]

RECURSIVE depsAt(_, _)
depsAt(e, i) ==
  IF e = <<>> THEN <<>>
  ELSE IF e[1][1] = i THEN <<e[1][2]>> \o depsAt(Tail(e), i)
  ELSE depsAt(Tail(e), i)

\* a plan file given by its ids q and its dependency entries e
graphPlan(q, e) ==
  [i \in DOMAIN q |->
     [screenId |-> q[i], route |-> RouteOf(q[i]), complexity |-> "low",
      phase |-> "standard", dependencies |-> depsAt(e, i)]]

\* a plan file given by the fields the ordering rules read
orderPlan(q, cx, ph, dp) ==
  [i \in DOMAIN q |->
     [screenId |-> q[i], route |-> RouteOf(q[i]), complexity |-> cx[i],
      phase |-> ph[i], dependencies |-> dp[i]]]

\* the screens the manifest directory describes: all, or all but the last
KnownIdSets == {ScreenIdSet, ScreenIdSet \ {ScreenIdOrder[Len(ScreenIdOrder)]}}

\* the manifests of the known screens, agreeing with the plan file on the
\* complexity of the screens it lists
manifestsFor(items, known) ==
  LET ids == sortedIds(known)
  IN [k \in DOMAIN ids |->
        [screenId |-> ids[k], route |-> RouteOf(ids[k]),
         complexity |-> IF hasId(items, ids[k]) THEN rowOf(items, ids[k]).complexity
                        ELSE "low",
         targets |-> {}]]

ValidateInit ==
  /\ CtlIdle
  /\ ScoreIdle
  /\ \E n \in 0..Len(ScreenIdOrder) :
       \E q \in [1..n -> ScreenIdSet] :
         \/ \E k \in 0..MaxEdges :
              \E e \in [1..k -> (1..n) \X ScreenIdSet] :
                grouped(e) /\ plan = graphPlan(q, e)
         \/ \E cx \in [1..n -> {"low", "high"}] :
              \E ph \in [1..n -> {"standard", "guided"}] :
                \E dp \in [1..n -> {<<>>, <<ScreenIdOrder[1]>>}] :
                  plan = orderPlan(q, cx, ph, dp)
  /\ \E known \in KnownIdSets : manifests = manifestsFor(plan, known)
  /\ summaryRows = summaryOf(manifests)
  /\ jsResult = noResult
  /\ tsResult = noResult
  /\ ppc = "validate"

ValidateNext == ValidatePlanJs \/ ValidatePlanTs

SpecValidate == ValidateInit /\ [][ValidateNext]_vars

\* ------------------------------------------- validate-manifests.ts, whole
\* A manifest file carries, besides the fields the plan is built from, the
\* verdict of the compiled screen schema on it (schemaValid: the schema is
\* a file read at run time), the lengths of its interactiveContracts and
\* uiStates arrays, and renderModel.components: "absent", "empty" or "some".
Issue(screenId, severity, kind) ==
  [screenId |-> screenId, severity |-> severity, kind |-> kind]

validateManifestLenient(m) ==
  (IF ~m.schemaValid THEN <<Issue(m.screenId, "error", "Schema")>> ELSE <<>>)
  \o (IF m.interactiveContracts = 0
      THEN <<Issue(m.screenId, "warn", "NoInteractiveContracts")>> ELSE <<>>)
  \o (IF m.uiStates = 0 THEN <<Issue(m.screenId, "warn", "NoUiStates")>> ELSE <<>>)
  \o (IF m.components = "empty"
      THEN <<Issue(m.screenId, "warn", "EmptyComponents")>> ELSE <<>>)

\* validateManifest: the issues of one manifest file
validateManifest(m) ==
  (IF ~m.schemaValid THEN <<Issue(m.screenId, "error", "Schema")>> ELSE <<>>)
  \o (IF m.interactiveContracts = 0
      THEN <<Issue(m.screenId, "warn", "NoInteractiveContracts")>> ELSE <<>>)
  \o (IF m.uiStates = 0 THEN <<Issue(m.screenId, "warn", "NoUiStates")>> ELSE <<>>)
  \o (IF m.components = "empty"
      THEN <<Issue(m.screenId, "error", "EmptyComponents")>> ELSE <<>>)

\* main: configured says the manifests directory and both schema files
\* exist, planExists that _execution-plan.json does, planSchemaValid is the
\* verdict of the compiled plan schema. exit is the exit status of the
\* process, 0 when main returns.
validateManifestsMain(files, configured, planExists, items, planSchemaValid) ==
  IF ~configured \/ Len(files) = 0
  THEN [ran |-> TRUE, valid |-> FALSE, errors |-> <<>>, cycle |-> <<>>,
        issues |-> <<>>, reportWritten |-> FALSE, exit |-> 1]
  ELSE LET screenIssues == flatten([i \in DOMAIN files |-> validateManifest(files[i])],
                                   Len(files))
           r == IF planExists
                THEN validateExecutionPlan(items, files, planSchemaValid)
                ELSE [ran |-> TRUE, valid |-> FALSE,
                      errors |-> <<Err("MissingPlanFile", "", "")>>, cycle |-> <<>>]
           issues == screenIssues
                     \o [k \in DOMAIN r.errors |->
                           Issue("_execution-plan", "error", r.errors[k].kind)]
           errors == SelectSeq(issues, LAMBDA i : i.severity = "error")
       IN [ran |-> TRUE, valid |-> r.valid, errors |-> r.errors, cycle |-> r.cycle,
           issues |-> issues, reportWritten |-> TRUE,
           exit |-> IF Len(errors) > 0 THEN 1 ELSE 0]

\* the manifests directory holds up to MaxFiles manifest files; the plan
\* file, when the analyst has written it, is the plan of the screens the
\* files describe
ManifestsInit ==
  /\ CtlIdle
  /\ ScoreIdle
  /\ \E n \in 0..MaxFiles :
       \E id \in [1..n -> {ScreenIdOrder[1], ScreenIdOrder[2]}] :
         \E sv \in [1..n -> BOOLEAN] :
           \E ic \in [1..n -> 0..1] :
             \E us \in [1..n -> 0..1] :
               \E rc \in [1..n -> {"absent", "empty", "some"}] :
                 manifests = [i \in 1..n |->
                                [screenId |-> id[i], route |-> RouteOf(id[i]),
                                 complexity |-> "low", targets |-> {},
                                 schemaValid |-> sv[i], interactiveContracts |-> ic[i],
                                 uiStates |-> us[i], components |-> rc[i]]]
  /\ summaryRows = summaryOf(manifests)
  /\ \E written \in BOOLEAN :
       /\ ppc = IF written THEN "validate" ELSE "build"
       /\ plan = IF written
                THEN LET ids == sortedIds(idsOf(manifests))
                     IN makeExecutionPlan([k \in DOMAIN ids |-> rowOf(manifests, ids[k])])
                ELSE <<>>
  /\ jsResult = noResult
  /\ tsResult = noResult

ValidateManifests ==
  /\ ~tsResult.ran
  /\ \E configured \in BOOLEAN :
       \E planSchemaValid \in BOOLEAN :
         tsResult' = validateManifestsMain(manifests, configured, ppc = "validate", plan,
                                           planSchemaValid)
  /\ UNCHANGED <<ctlVars, scoreVars, manifests, summaryRows, plan, jsResult, ppc>>

SpecManifests == ManifestsInit /\ [][ValidateManifests]_vars

\* ------------------------------------------------- run-validator-lite.js
\* What the lite validator finds for one row of _summary.json: whether the
\* manifest file exists and how many uiStates it declares (0 also when
\* uiStates is not an array), whether the generated page and E2E spec files
\* exist, and whether the page text holds the UI_STATES constant and the
\* screen test id.
LiteScreens ==
  {f \in [manifest : BOOLEAN, uiStates : 0..MaxStates, page : BOOLEAN, e2eSpec : BOOLEAN,
          usesStates : BOOLEAN, testid : BOOLEAN] :
     /\ ~f.manifest => f.uiStates = 0
     /\ ~f.page => (~f.usesStates /\ ~f.testid)}

\* the visual dimension passing whenever the page file exists
liteDimensionsVisualByPage(f) ==
  [visual |-> f.page,
   structural |-> f.manifest /\ f.page,
   functional |-> f.manifest /\ f.e2eSpec,
   stateCoverage |-> (IF f.manifest THEN f.uiStates ELSE 0) = 0 \/ (f.page /\ f.usesStates),
   a11y |-> f.page /\ f.testid,
   performance |-> TRUE]

\* lines 35-48: the pass flag of the six dimensions (the detail texts are
\* left out); pageText is '' when the page file is missing
liteDimensions(f) ==
  [visual |-> FALSE,
   structural |-> f.manifest /\ f.page,
   functional |-> f.manifest /\ f.e2eSpec,
   stateCoverage |-> (IF f.manifest THEN f.uiStates ELSE 0) = 0 \/ (f.page /\ f.usesStates),
   a11y |-> f.page /\ f.testid,
   performance |-> TRUE]

\* lines 48-64: the scorecard of one screen
liteScorecard(f) ==
  LET dimensions == liteDimensions(f)
      requiredDims == <<"visual", "structural", "functional", "stateCoverage", "a11y",
                        "performance">>
      failedDims == SelectSeq(requiredDims, LAMBDA d : ~dimensions[d])
  IN [status |-> IF inSeq(failedDims, "structural") \/ inSeq(failedDims, "functional")
                 THEN "FAIL"
                 ELSE IF Len(failedDims) > 0 THEN "NEEDS_REVIEW" ELSE "PASS",
      dimensions |-> dimensions,
      failedDimensions |-> failedDims]

\* lines 27, 68-72: the totals after the first n screens of the loop
RECURSIVE liteTotals(_, _)
liteTotals(cs, n) ==
  IF n = 0 THEN [total |-> 0, pass |-> 0, needsReview |-> 0, fail |-> 0, criticalFailures |-> 0]
  ELSE LET t == liteTotals(cs, n - 1)
           status == cs[n].status
       IN [total |-> t.total + 1,
           pass |-> t.pass + (IF status = "PASS" THEN 1 ELSE 0),
           needsReview |-> t.needsReview
                             + (IF status # "PASS" /\ status = "NEEDS_REVIEW" THEN 1 ELSE 0),
           fail |-> t.fail
                      + (IF status # "PASS" /\ status # "NEEDS_REVIEW" THEN 1 ELSE 0),
           criticalFailures |-> t.criticalFailures + (IF status = "FAIL" THEN 1 ELSE 0)]

\* _summary.json lists up to MaxScreens screens
LiteInit ==
  /\ CtlIdle
  /\ PlanIdle
  /\ \E n \in 0..MaxScreens : evidence \in [1..n -> LiteScreens]
  /\ pixelFiles = <<>>
  /\ deltaDirs = <<>>
  /\ cards = <<>>
  /\ spc = "lite"

\* main: exit 1 when the manifests directory or _summary.json is missing
\* (lines 16-24, nothing to score then); otherwise one scorecard per row
\* and the summary of the totals
RunValidatorLite ==
  /\ spc = "lite"
  /\ \E found \in (IF evidence = <<>> THEN BOOLEAN ELSE {TRUE}) :
       IF ~found
       THEN /\ exitCode' = 1
            /\ spc' = "failed"
            /\ UNCHANGED <<cards, summary>>
       ELSE /\ cards' = [i \in DOMAIN evidence |-> liteScorecard(evidence[i])]
            /\ summary' = liteTotals(cards', Len(cards'))
            /\ exitCode' = 0
            /\ spc' = "scored"
  /\ UNCHANGED <<pc, loop_enabled, max_cycles, policy, cycle, decision, validations, fixes,
                 fixesDone, lastStep>>
  /\ UNCHANGED <<planVars, evidence, pixelFiles, deltaDirs>>

SpecLite == LiteInit /\ [][RunValidatorLite]_vars

\* ------------------------------------------------ the orchestrator script
\* The three step counters only record history; they saturate one above
\* the largest cycle bound.
Bump(n) == IF n <= MaxCyclesBound THEN n + 1 ELSE n

\* lines 13-18: the policy read from workflow.config.json; the default, a
\* strict one, and two lenient threshold policies.
LoopPolicies ==
  {DefaultPolicy,
   [minPass |-> 100, maxReview |-> 0, reqZero |-> TRUE, strictPass |-> TRUE],
   [minPass |-> 0, maxReview |-> 100, reqZero |-> TRUE, strictPass |-> FALSE],
   [minPass |-> 0, maxReview |-> 100, reqZero |-> FALSE, strictPass |-> FALSE]}

CtlInit ==
  /\ pc = "setup"
  /\ loop_enabled \in BOOLEAN
  /\ max_cycles \in 0..MaxCyclesBound
  /\ policy \in LoopPolicies
  /\ cycle = 0
  /\ summary = NoSummary
  /\ decision = "none"
  /\ exitCode = -1
  /\ validations = 0
  /\ fixes = 0
  /\ fixesDone = 0
  /\ lastStep = "none"
  /\ ScoreIdle
  /\ PlanIdle

\* lines 20-30: manifest validation, baseline capture, build checkpoint
Setup ==
  /\ pc = "setup"
  /\ pc' = "check"
  /\ UNCHANGED <<loop_enabled, max_cycles, policy, cycle, summary, decision, exitCode,
                 validations, fixes, fixesDone, lastStep, scoreVars, planVars>>

\* set -e: a setup or validator script that exits non-zero ends the run
ScriptFails ==
  /\ pc \in {"setup", "validate"}
  /\ pc' = "aborted"
  /\ exitCode' = 1
  /\ UNCHANGED <<loop_enabled, max_cycles, policy, cycle, summary, decision,
                 validations, fixes, fixesDone, lastStep, scoreVars, planVars>>

\* lines 32-35
LoopDisabled ==
  /\ pc = "check"
  /\ ~loop_enabled
  /\ pc' = "disabled"
  /\ exitCode' = 0
  /\ UNCHANGED <<loop_enabled, max_cycles, policy, cycle, summary, decision,
                 validations, fixes, fixesDone, lastStep, scoreVars, planVars>>

\* lines 32, 37
LoopStart ==
  /\ pc = "check"
  /\ loop_enabled
  /\ cycle' = 1
  /\ pc' = "while"
  /\ UNCHANGED <<loop_enabled, max_cycles, policy, summary, decision, exitCode,
                 validations, fixes, fixesDone, lastStep, scoreVars, planVars>>

\* a loop test that is off by one (cycle <= max_cycles + 1)
WhileEnterOneMore ==
  /\ pc = "while"
  /\ cycle <= max_cycles + 1
  /\ pc' = "validate"
  /\ UNCHANGED <<loop_enabled, max_cycles, policy, cycle, summary, decision, exitCode,
                 validations, fixes, fixesDone, lastStep, scoreVars, planVars>>

\* line 38, condition true
WhileEnter ==
  /\ pc = "while"
  /\ cycle <= max_cycles
  /\ pc' = "validate"
  /\ UNCHANGED <<loop_enabled, max_cycles, policy, cycle, summary, decision, exitCode,
                 validations, fixes, fixesDone, lastStep, scoreVars, planVars>>

\* an exhausted loop that reports success
WhileExitStatusZero ==
  /\ pc = "while"
  /\ ~(cycle <= max_cycles)
  /\ pc' = "exhausted"
  /\ exitCode' = 0
  /\ UNCHANGED <<loop_enabled, max_cycles, policy, cycle, summary, decision,
                 validations, fixes, fixesDone, lastStep, scoreVars, planVars>>

\* line 38 condition false, lines 78-79
WhileExit ==
  /\ pc = "while"
  /\ ~(cycle <= max_cycles)
  /\ pc' = "exhausted"
  /\ exitCode' = 1
  /\ UNCHANGED <<loop_enabled, max_cycles, policy, cycle, summary, decision,
                 validations, fixes, fixesDone, lastStep, scoreVars, planVars>>

\* The card the validator steps of one cycle produce for a screen.
pipelineCard(ev) ==
  score(filesOf(ev, pixelCompare(ev.shots), compareMetricsMain(ev.metrics)))

\* The cards of the screens a validation cycle may find.
LoopCards == {pipelineCard(ev) : ev \in EvidenceSamples}

\* lines 39-46: capture, compare, score; leaves _composite-summary.json
Validate ==
  /\ pc = "validate"
  /\ \E n \in 1..MaxScreens :
       \E cs \in [1..n -> LoopCards] : summary' = summarize(cs)
  /\ validations' = Bump(validations)
  /\ lastStep' = "validate"
  /\ pc' = "decide"
  /\ UNCHANGED <<loop_enabled, max_cycles, policy, cycle, decision, exitCode,
                 fixes, fixesDone, scoreVars, planVars>>

\* lines 48-63
Decide ==
  /\ pc = "decide"
  /\ decision' = Decision(summary, policy)
  /\ pc' = "branch"
  /\ UNCHANGED <<loop_enabled, max_cycles, policy, cycle, summary, exitCode,
                 validations, fixes, fixesDone, lastStep, scoreVars, planVars>>

\* an accept branch that reports but does not exit
AcceptNoExit ==
  /\ pc = "branch"
  /\ decision = "accept"
  /\ cycle' = cycle + 1
  /\ pc' = "while"
  /\ UNCHANGED <<loop_enabled, max_cycles, policy, summary, decision, exitCode,
                 validations, fixes, fixesDone, lastStep, scoreVars, planVars>>

\* lines 65-68
Accept ==
  /\ pc = "branch"
  /\ decision = "accept"
  /\ pc' = "accepted"
  /\ exitCode' = 0
  /\ UNCHANGED <<loop_enabled, max_cycles, policy, cycle, summary, decision,
                 validations, fixes, fixesDone, lastStep, scoreVars, planVars>>

\* a fix prompt that is shown after the last cycle too
FixWaitEveryCycle ==
  /\ pc = "branch"
  /\ decision # "accept"
  /\ cycle <= max_cycles
  /\ pc' = "fixwait"
  /\ fixes' = Bump(fixes)
  /\ lastStep' = "fix"
  /\ UNCHANGED <<loop_enabled, max_cycles, policy, cycle, summary, decision, exitCode,
                 validations, fixesDone, scoreVars, planVars>>

\* lines 70-72: the prompt for the fixer is shown and the script blocks
FixWait ==
  /\ pc = "branch"
  /\ decision # "accept"
  /\ cycle < max_cycles
  /\ pc' = "fixwait"
  /\ fixes' = Bump(fixes)
  /\ lastStep' = "fix"
  /\ UNCHANGED <<loop_enabled, max_cycles, policy, cycle, summary, decision, exitCode,
                 validations, fixesDone, scoreVars, planVars>>

\* a loop body that forgets to advance the counter
FixDoneSameCycle ==
  /\ pc = "fixwait"
  /\ fixesDone' = Bump(fixesDone)
  /\ pc' = "while"
  /\ UNCHANGED <<loop_enabled, max_cycles, policy, cycle, summary, decision, exitCode,
                 validations, fixes, lastStep, scoreVars, planVars>>

\* lines 72-75: Enter is pressed, the cycle counter advances
FixDone ==
  /\ pc = "fixwait"
  /\ fixesDone' = Bump(fixesDone)
  /\ cycle' = cycle + 1
  /\ pc' = "while"
  /\ UNCHANGED <<loop_enabled, max_cycles, policy, summary, decision, exitCode,
                 validations, fixes, lastStep, scoreVars, planVars>>

\* lines 70, 75: last cycle, no fix step
NoFix ==
  /\ pc = "branch"
  /\ decision # "accept"
  /\ ~(cycle < max_cycles)
  /\ cycle' = cycle + 1
  /\ pc' = "while"
  /\ UNCHANGED <<loop_enabled, max_cycles, policy, summary, decision, exitCode,
                 validations, fixes, fixesDone, lastStep, scoreVars, planVars>>

\* every step but a failing script
LoopNext ==
  \/ Setup
  \/ LoopDisabled
  \/ LoopStart
  \/ WhileEnter
  \/ WhileExit
  \/ Validate
  \/ Decide
  \/ Accept
  \/ FixWait
  \/ FixDone
  \/ NoFix

Next == LoopNext \/ ScriptFails

Spec == CtlInit /\ [][Next]_vars

\* The script runs its steps one after the other; every validator run and
\* every fix wait completes.
LiveSpec == CtlInit /\ [][LoopNext]_vars /\ WF_vars(LoopNext)

\* the decision script alone, on an arbitrary summary file
DecisionInit ==
  /\ pc = "decide"
  /\ loop_enabled = TRUE
  /\ max_cycles \in 1..MaxCyclesBound
  /\ policy \in Policies
  /\ cycle = 1
  /\ summary \in SummaryFiles
  /\ decision = "none"
  /\ exitCode = -1
  /\ validations = 1
  /\ fixes = 0
  /\ fixesDone = 0
  /\ lastStep = "validate"
  /\ ScoreIdle
  /\ PlanIdle

SpecDecision == DecisionInit /\ [][Decide]_vars

\* ===================================================== remediation claims
Running == pc \in {"while", "validate", "decide", "branch", "fixwait"}

Accepted == pc = "accepted"

Exhausted == pc = "exhausted"

\* C1: with maxCycles >= 1 the loop evaluates at most maxCycles cycles: the
\* counter is within 1..maxCycles whenever a validation runs or is being
\* decided, no more than maxCycles validations ever run, after maxCycles
\* validations without acceptance the only step left is the exit to
\* EXHAUSTED, and EXHAUSTED is reached after exactly maxCycles validations.
C1_AtMostMaxCycles ==
  /\ [](max_cycles >= 1 =>
          /\ (pc \in {"validate", "decide", "branch", "fixwait"}
                => cycle >= 1 /\ cycle <= max_cycles)
          /\ validations <= max_cycles
          /\ (Exhausted => validations = max_cycles /\ decision = "retry"))
  /\ [][max_cycles >= 1 /\ pc = "while" /\ validations = max_cycles
          => Exhausted']_vars

\* C1 witness: EXHAUSTED after three non-accepted cycles.
C1_Witness ==
  Exhausted /\ max_cycles = 3 /\ validations = 3 /\ decision = "retry" /\ exitCode = 1

\* C2: once the loop is entered at cycle 1 the controller eventually stops
\* in ACCEPTED or EXHAUSTED.
C2_EventuallyTerminal == (pc = "while" /\ cycle = 1) ~> (Accepted \/ Exhausted)

\* C2 witness: a run that needed every cycle and both kinds of stop exist;
\* here the one accepted in its last cycle after two fix waits.
C2_Witness == Accepted /\ max_cycles = 3 /\ validations = 3 /\ fixesDone = 2

\* C3: in threshold mode with total >= 1 the decision is accept exactly when
\* pass/total >= minPassRate, needsReview/total <= maxNeedsReviewRate, and
\* criticalFailures = 0 if zero critical failures are required.
C3_ThresholdDecision ==
  (pc = "branch" /\ ~policy.strictPass /\ summary.total >= 1) =>
    (decision = "accept" <=>
       /\ summary.pass * 100 >= policy.minPass * summary.total
       /\ summary.needsReview * 100 <= policy.maxReview * summary.total
       /\ (policy.reqZero => summary.criticalFailures = 0))

\* C3 witness: the 19-of-20 summary is accepted under minPassRate 0.9,
\* maxNeedsReviewRate 0.05 and zero critical failures required.
C3_Witness ==
  /\ pc = "branch"
  /\ summary = ExampleSummary
  /\ policy = [minPass |-> 90, maxReview |-> 5, reqZero |-> TRUE, strictPass |-> FALSE]
  /\ decision = "accept"

\* C4: in strict mode the decision is accept exactly when fail = 0 and
\* needsReview = 0, whatever the rates and the critical-failure count.
C4_StrictDecision ==
  (pc = "branch" /\ policy.strictPass) =>
    (decision = "accept" <=> (summary.fail = 0 /\ summary.needsReview = 0))

\* C4 witness: strict mode accepts a summary the thresholds would reject
\* (critical failures present, pass rate below the minimum).
C4_Witness ==
  /\ pc = "branch"
  /\ policy.strictPass /\ policy.reqZero /\ policy.minPass = 100
  /\ summary.criticalFailures > 0 /\ summary.pass < summary.total
  /\ decision = "accept"

\* C5: the fix step runs exactly once after each non-accepted cycle below
\* maxCycles and never after an accepted cycle or after cycle maxCycles;
\* validations and fix waits alternate, and the validation of cycle N+1
\* starts only after the fix wait of cycle N has completed.
C5_FixAlternation ==
  /\ fixesDone <= fixes /\ fixes <= fixesDone + 1
  /\ (pc = "while" /\ cycle <= max_cycles =>
        validations = cycle - 1 /\ fixes = cycle - 1 /\ fixesDone = cycle - 1)
  /\ (pc = "validate" =>
        /\ validations = cycle - 1 /\ fixes = cycle - 1 /\ fixesDone = cycle - 1
        /\ (cycle > 1 => lastStep = "fix"))
  /\ (pc \in {"decide", "branch"} =>
        /\ validations = cycle /\ fixes = cycle - 1 /\ fixesDone = cycle - 1
        /\ lastStep = "validate")
  /\ (pc = "fixwait" =>
        /\ decision = "retry" /\ cycle < max_cycles
        /\ validations = cycle /\ fixes = cycle /\ fixesDone = cycle - 1
        /\ lastStep = "fix")
  /\ (Accepted => fixes = validations - 1 /\ fixesDone = fixes /\ lastStep = "validate")
  /\ (Exhausted /\ max_cycles >= 1 =>
        fixes = max_cycles - 1 /\ fixesDone = fixes /\ lastStep = "validate")

\* C5 witness: the second fix wait, entered after the second rejected cycle.
C5_Witness == pc = "fixwait" /\ cycle = 2 /\ fixes = 2 /\ fixesDone = 1 /\ max_cycles = 3

\* C6: ACCEPTED and EXHAUSTED are absorbing, an accept decision leads to
\* ACCEPTED at once, ACCEPTED exits 0 and EXHAUSTED exits non-zero.
C6_TerminalAbsorbing ==
  /\ []((Accepted => exitCode = 0 /\ decision = "accept") /\ (Exhausted => exitCode > 0))
  /\ [][(Accepted \/ Exhausted) => UNCHANGED vars]_vars
  /\ [][pc = "branch" /\ decision = "accept" => Accepted']_vars
  /\ [][exitCode # -1 => exitCode' = exitCode /\ validations' = validations /\ fixes' = fixes]_vars

\* C6 witness: both stops occur; here EXHAUSTED with exit status 1 after a
\* fix wait.
C6_Witness == Exhausted /\ exitCode = 1 /\ fixesDone >= 1

\* ======================================================= scorecard claims
Severity(st) == IF st = "FAIL" THEN 2 ELSE IF st = "NEEDS_REVIEW" THEN 1 ELSE 0

Scored == spc = "scored"

\* C7: the overall status of every scored screen is the maximum of its six
\* dimension statuses under FAIL > NEEDS_REVIEW > PASS.
C7_OverallIsMaxSeverity ==
  Scored =>
    \A i \in DOMAIN cards :
      /\ DOMAIN cards[i].dimensions = DimNames
      /\ \A d \in DimNames : Severity(cards[i].dimensions[d]) <= Severity(cards[i].overall)
      /\ \E d \in DimNames : Severity(cards[i].dimensions[d]) = Severity(cards[i].overall)

\* C7 witness: a scored screen with a single FAIL among a NEEDS_REVIEW and
\* four PASS dimensions, scored FAIL.
C7_Witness ==
  /\ Scored
  /\ \E i \in DOMAIN cards :
       /\ cards[i].overall = "FAIL"
       /\ Cardinality({d \in DimNames : cards[i].dimensions[d] = "FAIL"}) = 1
       /\ Cardinality({d \in DimNames : cards[i].dimensions[d] = "NEEDS_REVIEW"}) = 1

\* Evidence of a dimension is entirely absent for screen i.
NoVisualEvidence(i) ==
  ~pixelFiles[i].exists \/ \A v \in VpIdx : ~evidence[i].shots[v].present

NoStructuralEvidence(i) == \A v \in VpIdx : ~evidence[i].metrics[v].present

\* C8: a dimension whose evidence is entirely absent is NEEDS_REVIEW.
C8_AbsentEvidenceNeedsReview ==
  Scored =>
    \A i \in DOMAIN cards :
      LET d == cards[i].dimensions
      IN /\ NoVisualEvidence(i) => d.visualFidelity = "NEEDS_REVIEW"
         /\ NoStructuralEvidence(i) => d.structuralParity = "NEEDS_REVIEW"
         /\ ~evidence[i].e2e.present => d.functionalParity = "NEEDS_REVIEW"
         /\ evidence[i].capturedStates = 0 => d.uiStateCoverage = "NEEDS_REVIEW"
         /\ ~evidence[i].a11y.present => d.accessibilityBaseline = "NEEDS_REVIEW"
         /\ ~evidence[i].perf.present => d.performanceGuardrail = "NEEDS_REVIEW"

FailsCritically(c) ==
  \E d \in {"structuralParity", "functionalParity", "accessibilityBaseline",
            "performanceGuardrail"} : c.dimensions[d] = "FAIL"

FailsVisuallyOnly(c) ==
  /\ c.dimensions.visualFidelity = "FAIL"
  /\ \A d \in DimNames \ {"visualFidelity"} : c.dimensions[d] # "FAIL"

\* C9: a screen failing only in visual fidelity is FAIL overall but is not
\* among the summary's criticalFailures; a screen with a structural,
\* functional, accessibility or performance FAIL is.
C9_VisualOnlyNotCritical ==
  Scored =>
    /\ \A i \in DOMAIN cards : FailsVisuallyOnly(cards[i]) => cards[i].overall = "FAIL"
    /\ summary.criticalFailures
         >= countCards([i \in DOMAIN cards |-> FailsCritically(cards[i])])
    /\ summary.criticalFailures
         + countCards([i \in DOMAIN cards |-> FailsVisuallyOnly(cards[i])]) <= summary.total

\* ============================================================ plan claims
\* x depends on y in the plan
DependsOn(items, x, y) ==
  \E i \in DOMAIN items : items[i].screenId = x /\ inSeq(items[i].dependencies, y)

RECURSIVE reachable(_, _, _)
reachable(items, from, n) ==
  IF n = 0 THEN from
  ELSE reachable(items, from \cup {y \in ScreenIdSet : \E x \in from : DependsOn(items, x, y)},
                 n - 1)

\* no screen is reached from its own dependencies
Acyclic(items) ==
  \A x \in ScreenIdSet :
    x \notin reachable(items, {y \in ScreenIdSet : DependsOn(items, x, y)},
                       Len(ScreenIdOrder))

Passed(r) == r.valid /\ r.errors = <<>>

\* the plan file was turned down by the plan schema
SchemaRejected(r) == r.errors = <<Err("Schema", "", "")>>

\* C10 as stated: the plan built from any manifest set with an acyclic
\* derived dependency graph, the empty set included, passes plan validation
\* (in validate-manifests.ts, once its schema accepts the plan file).
C10_BuiltPlanValid_AnySet ==
  (ppc = "validate" /\ Acyclic(plan)) =>
    /\ (jsResult.ran => Passed(jsResult))
    /\ (tsResult.ran /\ ~SchemaRejected(tsResult) => Passed(tsResult))

\* C10 amended: the plan built from a non-empty manifest set with an acyclic
\* derived dependency graph passes plan validation with no errors: always
\* in validate-execution-plan.js, and in validate-manifests.ts whenever its
\* schema accepts the plan file.
C10_BuiltPlanValid ==
  (ppc = "validate" /\ Len(manifests) >= 1 /\ Acyclic(plan)) =>
    /\ (jsResult.ran => Passed(jsResult))
    /\ (tsResult.ran /\ ~SchemaRejected(tsResult) => Passed(tsResult))

\* C10 witness: three screens of the three complexities with a dependency
\* chain, validated by both validators.
C10_Witness ==
  /\ ppc = "validate" /\ jsResult.ran /\ tsResult.ran
  /\ Passed(jsResult) /\ Passed(tsResult)
  /\ Len(plan) = 3
  /\ {plan[i].complexity : i \in DOMAIN plan} = Complexities
  /\ \E i, j \in DOMAIN plan :
       /\ i # j
       /\ Len(plan[i].dependencies) = 2
       /\ Len(plan[j].dependencies) = 1

\* C11: the builder rejects a manifest set whose derived dependency graph
\* has a cycle: no plan is emitted for it, so every emitted plan is acyclic.
C11_BuilderRejectsCycle == (ppc = "validate" /\ ~Acyclic(plan)) => plan = <<>>

\* the manifests in the input order given by the permutation p of their
\* positions
reordered(ms, p) == [i \in DOMAIN ms |-> ms[p[i]]]

Orderings(ms) == {p \in [DOMAIN ms -> DOMAIN ms] : \A i, j \in DOMAIN ms : i # j => p[i] # p[j]}

\* C12: the plan is a function of the manifest set: the manifests (unique
\* screenIds) presented in any other input order give the same sequence of
\* entries with the same dependency lists.
C12_PlanIgnoresInputOrder ==
  (ppc = "validate" /\ ~jsResult.ran /\ ~tsResult.ran) =>
    \A p \in Orderings(manifests) : makeExecutionPlan(reordered(manifests, p)) = plan

\* C12 witness: three manifests given in descending id order, two of them
\* ranked equal up to the screenId, planned in ascending id order.
C12_Witness ==
  /\ ppc = "validate" /\ Len(manifests) = 3
  /\ manifests[1].screenId = "c" /\ manifests[2].screenId = "b" /\ manifests[3].screenId = "a"
  /\ planKeyNoScreenId(plan[1]) = planKeyNoScreenId(plan[2])
  /\ plan[1].screenId = "a" /\ plan[2].screenId = "b"
  /\ \E i \in DOMAIN plan : Len(plan[i].dependencies) = 2

\* x comes before y under (phase rank, complexity rank, number of
\* dependencies, screenId), each ascending
precedes(x, y) ==
  LET px == PHASE_RANK(x.phase)
      py == PHASE_RANK(y.phase)
      cx == COMPLEXITY_RANK(x.complexity)
      cy == COMPLEXITY_RANK(y.complexity)
      dx == Len(x.dependencies)
      dy == Len(y.dependencies)
  IN \/ px < py
     \/ px = py /\ cx < cy
     \/ px = py /\ cx = cy /\ dx < dy
     \/ px = py /\ cx = cy /\ dx = dy /\ IdRank(x.screenId) < IdRank(y.screenId)

\* the entries of a plan in the order the validators expect
canonical(items) ==
  sortBy([i \in DOMAIN items |-> [key |-> expectedKey(items[i]), item |-> items[i]]])

\* the entries of a plan in the order the builder's sort gives them
builderOrder(items) ==
  sortBy([i \in DOMAIN items |-> [key |-> planKey(items[i]), item |-> items[i]]])

sameEntries(xs, ys) ==
  /\ Len(xs) = Len(ys)
  /\ \A i \in DOMAIN xs :
       Cardinality({j \in DOMAIN xs : xs[j] = xs[i]}) =
       Cardinality({j \in DOMAIN ys : ys[j] = xs[i]})

hasErr(r, kind) == \E i \in DOMAIN r.errors : r.errors[i].kind = kind

\* C13: the order the validators expect is the plan's entries sorted by
\* (phase rank, complexity rank, number of dependencies, screenId); entries
\* with different screenIds are strictly ordered; the builder's sort gives
\* the same arrangement; and both validators agree on whether a plan is in
\* that order.
C13_CanonicalOrder ==
  (jsResult.ran /\ tsResult.ran) =>
    LET canon == canonical(plan)
    IN /\ sameEntries(canon, plan)
       /\ \A i, j \in DOMAIN canon : i < j => ~precedes(canon[j], canon[i])
       /\ \A i, j \in DOMAIN plan :
            plan[i].screenId # plan[j].screenId =>
              (precedes(plan[i], plan[j]) <=> ~precedes(plan[j], plan[i]))
       /\ builderOrder(plan) = canon
       /\ expectedOrderOf(plan) = actualOrderOf(canon)
       /\ (~SchemaRejected(tsResult) /\ plan # <<>> =>
            (hasErr(jsResult, "Order") <=> hasErr(tsResult, "Order")))

C13_Example ==
  <<[screenId |-> "a", route |-> RouteOf("a"), complexity |-> "low",
     phase |-> "standard", dependencies |-> <<>>],
    [screenId |-> "b", route |-> RouteOf("b"), complexity |-> "high",
     phase |-> "standard", dependencies |-> <<"a">>],
    [screenId |-> "c", route |-> RouteOf("c"), complexity |-> "high",
     phase |-> "guided", dependencies |-> <<>>]>>

C13_Witness ==
  /\ jsResult.ran
  /\ tsResult.ran
  /\ plan = <<C13_Example[3], C13_Example[1], C13_Example[2]>>
  /\ canonical(plan) = C13_Example
  /\ expectedOrderOf(plan) = <<"a", "b", "c">>
  /\ hasErr(jsResult, "Order")

\* the screens x depends on, directly or through other screens
reaches(items, x) ==
  reachable(items, {y \in ScreenIdSet : DependsOn(items, x, y)}, Len(ScreenIdOrder))

onCycle(items, x) == x \in reaches(items, x)

\* cyc is a cycle of the plan: it returns to its first screen and every
\* screen on it depends on the next
genuineCycle(items, cyc) ==
  /\ Len(cyc) >= 2
  /\ cyc[1] = cyc[Len(cyc)]
  /\ \A i \in 1..(Len(cyc) - 1) : DependsOn(items, cyc[i], cyc[i + 1])

\* the first entry of the plan from which a cycle is reached
firstCyclic(items) ==
  CHOOSE i \in DOMAIN items :
    /\ \E x \in reaches(items, items[i].screenId) \cup {items[i].screenId} : onCycle(items, x)
    /\ \A j \in 1..(i - 1) :
         \A x \in reaches(items, items[j].screenId) \cup {items[j].screenId} :
           ~onCycle(items, x)

cycleClaim(items, r) ==
  /\ hasErr(r, "Cycle") <=> ~Acyclic(items)
  /\ hasErr(r, "Cycle") <=> r.cycle # <<>>
  /\ r.cycle # <<>> =>
       /\ genuineCycle(items, r.cycle)
       /\ r.cycle[1] \in reaches(items, items[firstCyclic(items)].screenId)
                           \cup {items[firstCyclic(items)].screenId}
  /\ (/\ actualOrderOf(items) = <<"a", "b">>
      /\ items[1].dependencies = <<"b">>
      /\ items[2].dependencies = <<"a">>) => r.cycle = <<"a", "b", "a">>

noRepeats(xs) == \A i, j \in DOMAIN xs : xs[i] = xs[j] => i = j

\* C14: a validator that ran on a non-empty plan reports a cycle exactly
\* when some screen of the plan depends on itself through the dependencies
\* its entries list; the reported list is a cycle of the plan, reached
\* from the first entry that leads to one; a -> b, b -> a gives [a, b, a].
C14_CycleReported_AnyPlan ==
  /\ (jsResult.ran /\ plan # <<>>) => cycleClaim(plan, jsResult)
  /\ (tsResult.ran /\ ~SchemaRejected(tsResult) /\ plan # <<>>) => cycleClaim(plan, tsResult)

\* the same for the plans that list no screen twice
C14_CycleReported ==
  noRepeats(actualOrderOf(plan)) => C14_CycleReported_AnyPlan

coverageClaim(items, rows, r) ==
  LET ids == actualOrderOf(items)
      missing == idsOf(rows) \ idsOf(items)
      extra == idsOf(items) \ idsOf(rows)
  IN /\ r.valid => (noRepeats(ids) /\ idsOf(items) = idsOf(rows))
     /\ (missing # {} \/ extra # {} \/ ~noRepeats(ids)) => (~r.valid /\ r.errors # <<>>)
     /\ items # <<>> =>
          /\ \A id \in ScreenIdSet :
               (id \in missing) <=>
                 (\E k \in DOMAIN r.errors : r.errors[k] = Err("MissingScreen", id, ""))
          /\ \A id \in ScreenIdSet :
               (id \in extra) <=>
                 (\E k \in DOMAIN r.errors : r.errors[k] = Err("UnknownScreenId", id, ""))
          /\ \A id \in ScreenIdSet :
               (Cardinality({i \in DOMAIN ids : ids[i] = id}) > 1) <=>
                 (\E k \in DOMAIN r.errors : r.errors[k] = Err("DuplicateScreenId", id, ""))

\* C15: a plan reported valid lists every manifest screen exactly once and
\* no other screen; a missing screen, a screen without a manifest and a
\* repeated screen each make the plan invalid and are each reported under
\* their own error.
C15_ValidCoversManifests ==
  /\ jsResult.ran => coverageClaim(plan, summaryRows, jsResult)
  /\ (tsResult.ran /\ ~SchemaRejected(tsResult)) => coverageClaim(plan, manifests, tsResult)

C15_Witness ==
  /\ jsResult.ran /\ jsResult.valid
  /\ tsResult.ran /\ tsResult.valid
  /\ actualOrderOf(plan) = <<"a", "b">>
  /\ idsOf(manifests) = {"a", "b"}
  /\ plan[2].dependencies = <<"a">>

\* entry i of the plan lists dependency d more than once
repeatsDep(items, i, d) ==
  Cardinality({k \in DOMAIN items[i].dependencies : items[i].dependencies[k] = d}) > 1

dependencyClaim(items, rows, r) ==
  /\ r.valid =>
       \A i \in DOMAIN items :
         /\ ~inSeq(items[i].dependencies, items[i].screenId)
         /\ \A k \in DOMAIN items[i].dependencies : hasId(rows, items[i].dependencies[k])
         /\ noRepeats(items[i].dependencies)
  /\ items # <<>> =>
       \A i \in DOMAIN items : \A d \in ScreenIdSet :
         LET id == items[i].screenId
             listed == inSeq(items[i].dependencies, d)
         IN /\ (listed /\ d = id) =>
                 (~r.valid /\ inSeq(r.errors, Err("SelfDependency", id, d)))
            /\ (listed /\ ~hasId(rows, d)) =>
                 (~r.valid /\ inSeq(r.errors, Err("UnknownDependency", id, d)))
            /\ repeatsDep(items, i, d) =>
                 (~r.valid /\ inSeq(r.errors, Err("DuplicateDependency", id, d)))
  /\ \A k \in DOMAIN r.errors :
       LET e == r.errors[k]
       IN /\ e.kind = "SelfDependency" =>
               (e.dep = e.screenId /\ DependsOn(items, e.screenId, e.dep))
          /\ e.kind = "UnknownDependency" =>
               (~hasId(rows, e.dep) /\ DependsOn(items, e.screenId, e.dep))
          /\ e.kind = "DuplicateDependency" =>
               \E i \in DOMAIN items : items[i].screenId = e.screenId /\ repeatsDep(items, i, e.dep)

\* C16: a plan reported valid has no entry that depends on itself, names
\* an unknown screen as a dependency or lists a dependency twice; each of
\* the three is reported under its own error, apart from the cycle error,
\* exactly for the entries that commit it, and makes the plan invalid.
C16_ValidDependencies ==
  /\ jsResult.ran => dependencyClaim(plan, summaryRows, jsResult)
  /\ (tsResult.ran /\ ~SchemaRejected(tsResult)) => dependencyClaim(plan, manifests, tsResult)

C16_Witness ==
  /\ jsResult.ran /\ tsResult.ran /\ ~SchemaRejected(tsResult)
  /\ actualOrderOf(plan) = <<"a", "b">>
  /\ plan[1].dependencies = <<"a">>
  /\ plan[2].dependencies = <<"c", "c">>
  /\ idsOf(manifests) = {"a", "b"}
  /\ inSeq(jsResult.errors, Err("SelfDependency", "a", "a"))
  /\ inSeq(jsResult.errors, Err("UnknownDependency", "b", "c"))
  /\ inSeq(jsResult.errors, Err("DuplicateDependency", "b", "c"))
  /\ hasErr(jsResult, "Cycle")
  /\ inSeq(tsResult.errors, Err("SelfDependency", "a", "a"))

\* the entries are in canonical order: no entry precedes an earlier one
inCanonicalOrder(items) ==
  \A i, j \in DOMAIN items : i < j => ~precedes(items[j], items[i])

\* the plan with entry i taken out and put back at position j
moved(items, i, j) ==
  LET rest == SubSeq(items, 1, i - 1) \o SubSeq(items, i + 1, Len(items))
  IN SubSeq(rest, 1, j - 1) \o <<items[i]>> \o SubSeq(rest, j, Len(rest))

\* the screenId sequence of the plan is that of its entries put in
\* canonical order
orderedAsCanonical(items) ==
  \E p \in Orderings(items) :
    /\ inCanonicalOrder(reordered(items, p))
    /\ actualOrderOf(reordered(items, p)) = actualOrderOf(items)

\* C17: a validator reports an ordering violation exactly when the plan's
\* screenId sequence is not that of its entries in canonical order; a plan
\* in canonical order passes the order check; a plan made from it by moving
\* one entry to another position is invalid, and, when no screen is listed
\* twice, is so by an ordering violation.
C17_OrderViolation ==
  (jsResult.ran /\ tsResult.ran /\ ~SchemaRejected(tsResult) /\ plan # <<>>) =>
    /\ hasErr(jsResult, "Order") <=> ~orderedAsCanonical(plan)
    /\ hasErr(tsResult, "Order") <=> ~orderedAsCanonical(plan)
    /\ inCanonicalOrder(plan) =>
         /\ ~hasErr(jsResult, "Order")
         /\ ~hasErr(tsResult, "Order")
         /\ \A i, j \in DOMAIN plan :
              i # j =>
                LET m == moved(plan, i, j)
                    rj == validatePlanJs(m, summaryRows)
                    rt == validateExecutionPlan(m, manifests, TRUE)
                IN /\ ~rj.valid
                   /\ ~rt.valid
                   /\ noRepeats(actualOrderOf(plan)) =>
                        (hasErr(rj, "Order") /\ hasErr(rt, "Order"))

C17_Witness ==
  /\ jsResult.ran /\ tsResult.ran /\ ~SchemaRejected(tsResult)
  /\ plan = C13_Example
  /\ inCanonicalOrder(plan)
  /\ ~hasErr(jsResult, "Order")
  /\ hasErr(validatePlanJs(moved(plan, 3, 1), summaryRows), "Order")
  /\ actualOrderOf(moved(plan, 3, 1)) = <<"c", "a", "b">>

\* the kinds of violation a plan commits against the screens rows describes
violationKinds(items, rows) ==
  LET ids == actualOrderOf(items)
      any(i) == {items[i].dependencies[k] : k \in DOMAIN items[i].dependencies}
  IN {k \in {"DuplicateScreenId"} : ~noRepeats(ids)}
     \cup {k \in {"UnknownScreenId"} : idsOf(items) \ idsOf(rows) # {}}
     \cup {k \in {"MissingScreen"} : idsOf(rows) \ idsOf(items) # {}}
     \cup {k \in {"SelfDependency"} : \E i \in DOMAIN items : items[i].screenId \in any(i)}
     \cup {k \in {"UnknownDependency"} : \E i \in DOMAIN items : any(i) \ idsOf(rows) # {}}
     \cup {k \in {"DuplicateDependency"} :
             \E i \in DOMAIN items : ~noRepeats(items[i].dependencies)}
     \cup {k \in {"Order"} : ~orderedAsCanonical(items)}

StructuralKinds ==
  {"DuplicateScreenId", "UnknownScreenId", "MissingScreen", "SelfDependency",
   "UnknownDependency", "DuplicateDependency", "Order"}

errorKinds(r) == {r.errors[k].kind : k \in DOMAIN r.errors}

collectsAll(items, rows, r) ==
  /\ r.valid <=> (r.errors = <<>>)
  /\ Cardinality({k \in DOMAIN r.errors : r.errors[k].kind = "Cycle"}) <= 1
  /\ items # <<>> => errorKinds(r) \cap StructuralKinds = violationKinds(items, rows)
  /\ violationKinds(items, rows) # {} => ~r.valid

\* C18: a validator lists an error for every kind of violation the plan
\* commits, not only for the first; it reports valid exactly when it lists
\* no error; and it lists at most one cycle error.
C18_AllViolationsListed ==
  /\ jsResult.ran => collectsAll(plan, summaryRows, jsResult)
  /\ (tsResult.ran /\ ~SchemaRejected(tsResult)) => collectsAll(plan, manifests, tsResult)

\* C18 witness: b -> b and a -> a are two cycles; a is listed twice, c is
\* unknown, and the entries are out of order
C18_Witness ==
  /\ jsResult.ran /\ tsResult.ran /\ ~SchemaRejected(tsResult)
  /\ actualOrderOf(plan) = <<"b", "a", "a">>
  /\ plan[1].dependencies = <<"b">>
  /\ plan[2].dependencies = <<>>
  /\ plan[3].dependencies = <<"a", "c">>
  /\ idsOf(manifests) = {"a", "b"}
  /\ {"DuplicateScreenId", "UnknownDependency", "Order", "Cycle"} \subseteq errorKinds(jsResult)
  /\ {"DuplicateScreenId", "UnknownDependency", "Order", "Cycle"} \subseteq errorKinds(tsResult)
  /\ jsResult.cycle = <<"b", "b">>
  /\ ~jsResult.valid /\ ~tsResult.valid

\* the run got as far as validating the batch
Validated(r) == r.ran /\ r.reportWritten

hasIssue(r, id, severity, kind) == inSeq(r.issues, Issue(id, severity, kind))

\* C19: a batch with an error-severity issue (a manifest the screen schema
\* rejects, or one whose renderModel.components is empty) is rejected with
\* a non-zero exit after the report is written, each such issue listed;
\* empty interactiveContracts and empty uiStates are listed as warnings and
\* a batch with nothing but warnings is accepted.
C19_FailsClosed ==
  /\ (tsResult.ran /\ ~tsResult.reportWritten) => tsResult.exit = 1
  /\ Validated(tsResult) =>
       /\ \A i \in DOMAIN manifests :
            LET m == manifests[i]
            IN /\ ~m.schemaValid =>
                    (hasIssue(tsResult, m.screenId, "error", "Schema") /\ tsResult.exit = 1)
               /\ m.components = "empty" =>
                    (hasIssue(tsResult, m.screenId, "error", "EmptyComponents")
                     /\ tsResult.exit = 1)
               /\ m.interactiveContracts = 0 =>
                    hasIssue(tsResult, m.screenId, "warn", "NoInteractiveContracts")
               /\ m.uiStates = 0 => hasIssue(tsResult, m.screenId, "warn", "NoUiStates")
       /\ (\E k \in DOMAIN tsResult.issues : tsResult.issues[k].severity = "error")
            => tsResult.exit = 1
       /\ (\A k \in DOMAIN tsResult.issues : tsResult.issues[k].severity = "warn")
            => tsResult.exit = 0
       /\ \A k \in DOMAIN tsResult.issues :
            tsResult.issues[k].severity = "warn" <=>
              tsResult.issues[k].kind \in {"NoInteractiveContracts", "NoUiStates"}

C19_Witness ==
  /\ Validated(tsResult)
  /\ Len(manifests) = 2
  /\ hasIssue(tsResult, "a", "warn", "NoInteractiveContracts")
  /\ hasIssue(tsResult, "a", "warn", "NoUiStates")
  /\ hasIssue(tsResult, "b", "error", "EmptyComponents")
  /\ \A k \in DOMAIN tsResult.issues : tsResult.issues[k].screenId # "_execution-plan"
  /\ tsResult.exit = 1

\* C19, the accepting side: warnings only, exit status 0
C19_WitnessAccepted ==
  /\ Validated(tsResult)
  /\ Len(manifests) = 2
  /\ hasIssue(tsResult, "a", "warn", "NoInteractiveContracts")
  /\ hasIssue(tsResult, "b", "warn", "NoUiStates")
  /\ tsResult.exit = 0

\* C20: a batch in which two manifest files carry the same screenId is
\* rejected: an error-severity issue is listed and the exit status is not 0.
C20_DuplicateManifestRejected ==
  (Validated(tsResult) /\ ~noRepeats(actualOrderOf(manifests))) =>
    /\ \E k \in DOMAIN tsResult.issues : tsResult.issues[k].severity = "error"
    /\ tsResult.exit # 0

\* the compared pairs of a screen and the worst divergence among them, in
\* hundredths of a percent; images of different size diverge by 100%
comparedIn(shots) == {i \in DOMAIN shots : shots[i].present}

divergence(shot) == IF shot.sameSize THEN shot.diff ELSE 10000

worstDivergence(shots) ==
  IF comparedIn(shots) = {} THEN 0
  ELSE CHOOSE d \in {divergence(shots[i]) : i \in comparedIn(shots)} :
         \A i \in comparedIn(shots) : divergence(shots[i]) <= d

visualClaim(shots, status) ==
  /\ status = "PASS" <=> worstDivergence(shots) < 200
  /\ status = "NEEDS_REVIEW" <=>
       (worstDivergence(shots) >= 200 /\ worstDivergence(shots) <= 1000)
  /\ status = "FAIL" <=> worstDivergence(shots) > 1000
  /\ (\E i \in comparedIn(shots) : ~shots[i].sameSize) => status = "FAIL"

\* the screen was scored after the pixel comparison ran and compared a pair
ScoredAfterCompare(i) ==
  /\ spc = "scored"
  /\ pixelFiles[i].exists
  /\ comparedIn(evidence[i].shots) # {}

\* C21: once the pixel comparison has compared at least one pair of a
\* screen, its visual fidelity is PASS iff the worst divergence among the
\* compared pairs is under 2%, NEEDS_REVIEW iff it is from 2% to 10%, FAIL
\* iff it is over 10%; a pair of images of different size makes it FAIL,
\* whether or not another pair is missing.
C21_VisualThresholds_AnyCapture ==
  \A i \in DOMAIN cards :
    ScoredAfterCompare(i) =>
      visualClaim(evidence[i].shots, cards[i].dimensions.visualFidelity)

\* the same for the screens whose pairs were all compared
C21_VisualThresholds ==
  \A i \in DOMAIN cards :
    (ScoredAfterCompare(i) /\ comparedIn(evidence[i].shots) = DOMAIN evidence[i].shots) =>
      visualClaim(evidence[i].shots, cards[i].dimensions.visualFidelity)

coverageStatus(i) == cards[i].dimensions.uiStateCoverage

\* C22: the UI-state coverage of a scored screen is PASS when at least as
\* many states were captured as its manifest declares, a manifest that
\* declares none included, and FAIL otherwise.
C22_CoverageByCount ==
  \A i \in DOMAIN cards :
    Scored =>
      coverageStatus(i) =
        (IF evidence[i].capturedStates >= evidence[i].expectedStates THEN "PASS" ELSE "FAIL")

\* the same for the manifests that declare at least one state
C22_CoverageByCount_Declared ==
  \A i \in DOMAIN cards :
    (Scored /\ evidence[i].expectedStates > 0) =>
      coverageStatus(i) =
        (IF evidence[i].capturedStates >= evidence[i].expectedStates THEN "PASS" ELSE "FAIL")

\* the E2E checks recorded for a screen
checksOf(e) == IF e.present THEN e.passed + e.failed ELSE 0

functionalClaim(e, status) ==
  /\ status = "PASS" <=> (checksOf(e) >= 1 /\ e.failed = 0)
  /\ (e.present /\ e.failed > 0) => status = "FAIL"
  /\ checksOf(e) = 0 => status = "NEEDS_REVIEW"

C23_FunctionalParity_Recorded ==
  \A i \in DOMAIN cards :
    (Scored /\ (~evidence[i].e2e.present \/ checksOf(evidence[i].e2e) >= 1)) =>
      functionalClaim(evidence[i].e2e, cards[i].dimensions.functionalParity)

perfClaim(p, status) ==
  /\ status = "NEEDS_REVIEW" <=> ~p.present
  /\ p.present =>
       (status = "PASS" <=>
          (p.loadTimeMs <= LoadTimeCeilingMs /\ p.maxBundleKb <= BundleCeilingKb))
  /\ p.present => status \in {"PASS", "FAIL"}

\* C24: the performance guardrail of a scored screen with a measurement is
\* PASS iff loadTimeMs <= 3000 and maxBundleKb <= 250, for every
\* measurement from 0 upwards, and NEEDS_REVIEW only without a measurement.
C24_PerformanceGuardrail ==
  \A i \in DOMAIN cards :
    Scored => perfClaim(evidence[i].perf, cards[i].dimensions.performanceGuardrail)

\* the same for the measurements in which neither number is 0
C24_PerformanceGuardrail_NonZero ==
  \A i \in DOMAIN cards :
    (Scored /\ (evidence[i].perf.present =>
                  (evidence[i].perf.loadTimeMs > 0 /\ evidence[i].perf.maxBundleKb > 0))) =>
      perfClaim(evidence[i].perf, cards[i].dimensions.performanceGuardrail)

\* the critical deltas in the delta files of a screen
criticalEntries(dir) ==
  {fj \in UNION {{<<f, j>> : j \in DOMAIN dir.files[f]} : f \in DOMAIN dir.files} :
     dir.files[fj[1]][fj[2]].severity = "critical"}

structuralClaim(dir, status) ==
  /\ status = "PASS" <=> (dir.exists /\ criticalEntries(dir) = {})
  /\ status = "FAIL" <=> (dir.exists /\ criticalEntries(dir) # {})
  /\ status = "NEEDS_REVIEW" <=> ~dir.exists

\* C25, scoring alone: structural parity is PASS iff delta data exists with
\* no critical delta over all viewports, FAIL iff it holds a critical
\* delta, NEEDS_REVIEW iff no delta data exists.
C25_StructuralParity_Scoring ==
  \A i \in DOMAIN cards :
    Scored => structuralClaim(deltaDirs[i], cards[i].dimensions.structuralParity)

\* C25: as above, and a screen whose metrics were captured at no viewport
\* is NEEDS_REVIEW once the metrics comparison and the scoring have run.
C25_StructuralParity ==
  /\ C25_StructuralParity_Scoring
  /\ \A i \in DOMAIN cards :
       (Scored /\ deltaDirs[i].exists /\ NoStructuralEvidence(i)) =>
         cards[i].dimensions.structuralParity = "NEEDS_REVIEW"

\* the card of screen i scored in a batch of its own
cardAlone(i) == score(filesOf(evidence[i], pixelFiles[i], deltaDirs[i]))

\* the cards of the batch scored in the order p
cardsInOrder(p) == [k \in DOMAIN p |-> cardAlone(p[k])]

dependenciesFirst(items) ==
  \A i \in DOMAIN items :
    \A k \in DOMAIN items[i].dependencies :
      \E j \in 1..(i - 1) : items[j].screenId = items[i].dependencies[k]

\* C27: in a plan that a validator accepts, the dependencies of every
\* entry come earlier in the sequence than the entry.
C27_DependenciesFirst ==
  /\ (jsResult.ran /\ Passed(jsResult)) => dependenciesFirst(plan)
  /\ (tsResult.ran /\ Passed(tsResult)) => dependenciesFirst(plan)

\* what an accepted plan does guarantee of its dependencies: each names
\* another screen of the plan, and no chain of them leads back
C27_AcceptedDependencies ==
  ((jsResult.ran /\ Passed(jsResult)) \/ (tsResult.ran /\ Passed(tsResult))) =>
    /\ Acyclic(plan)
    /\ \A i \in DOMAIN plan :
         \A k \in DOMAIN plan[i].dependencies :
           /\ plan[i].dependencies[k] # plan[i].screenId
           /\ hasId(plan, plan[i].dependencies[k])

\* the run ended with status 0 after a validation whose summary the
\* policy accepts
ExitAfterAccept ==
  /\ pc = "accepted"
  /\ validations >= 1
  /\ decision = "accept"
  /\ Decision(summary, policy) = "accept"

\* C28 as stated: status 0 only after an accepted validation, whatever the
\* configuration.
C28_ExitZeroOnlyAccepted_AnyConfig == exitCode = 0 => ExitAfterAccept

\* C28 amended: with the remediation loop enabled, status 0 only after an
\* accepted validation, and never with maxCycles <= 0; with the loop
\* disabled the script exits with status 0 after setup, before any
\* validation.
C28_ExitZeroOnlyAccepted ==
  /\ (exitCode = 0 /\ loop_enabled) => ExitAfterAccept
  /\ (exitCode = 0 /\ ~loop_enabled) => (pc = "disabled" /\ validations = 0)
  /\ (loop_enabled /\ max_cycles <= 0) => (exitCode # 0 /\ validations = 0)
  /\ pc = "disabled" => exitCode = 0

C28_Witness ==
  /\ exitCode = 0
  /\ loop_enabled
  /\ ExitAfterAccept
  /\ cycle = 2
  /\ validations = 2
  /\ fixesDone = 1

\* C28, the disabled loop: status 0 with no validation run
C28_WitnessDisabled == exitCode = 0 /\ ~loop_enabled /\ max_cycles = 0 /\ validations = 0

\* the screens of the batch whose card has the overall status st
screensWith(st) == {i \in DOMAIN cards : cards[i].overall = st}

\* C29: in the batch summary total is the number of screens, every screen
\* is counted in exactly one of pass, needsReview and fail, so the three
\* add up to total, and criticalFailures equals fail.
C29_SummaryCounters ==
  Scored =>
    /\ summary.total = Len(evidence)
    /\ summary.pass = Cardinality(screensWith("PASS"))
    /\ summary.needsReview = Cardinality(screensWith("NEEDS_REVIEW"))
    /\ summary.fail = Cardinality(screensWith("FAIL"))
    /\ \A i \in DOMAIN evidence :
         Cardinality({st \in {"PASS", "NEEDS_REVIEW", "FAIL"} : i \in screensWith(st)}) = 1
    /\ summary.pass + summary.needsReview + summary.fail = summary.total
    /\ summary.criticalFailures = summary.fail

C29_Witness ==
  /\ Scored
  /\ summary.total = 2 /\ summary.pass = 0 /\ summary.needsReview = 1 /\ summary.fail = 1
  /\ summary.criticalFailures = 1
  /\ \E i \in DOMAIN cards : FailsVisuallyOnly(cards[i])

\* the dimensions of a lite scorecard that did not pass
liteFailed(c) == {d \in DOMAIN c.dimensions : ~c.dimensions[d]}

\* C30: in lite mode the visual dimension of every screen fails, so no
\* screen is PASS and the summary's pass is 0; a screen is FAIL exactly when
\* its structural or functional dimension fails and NEEDS_REVIEW otherwise;
\* the summary's criticalFailures equals its fail, the number of FAIL
\* screens.
C30_LiteNeverPasses ==
  spc = "scored" =>
    /\ DOMAIN cards = DOMAIN evidence
    /\ \A i \in DOMAIN cards :
         /\ "visual" \in liteFailed(cards[i])
         /\ cards[i].status # "PASS"
         /\ cards[i].status = "FAIL"
              <=> liteFailed(cards[i]) \cap {"structural", "functional"} # {}
         /\ cards[i].status = "NEEDS_REVIEW"
              <=> liteFailed(cards[i]) \cap {"structural", "functional"} = {}
         /\ "structural" \in liteFailed(cards[i])
              <=> ~(evidence[i].manifest /\ evidence[i].page)
         /\ "functional" \in liteFailed(cards[i])
              <=> ~(evidence[i].manifest /\ evidence[i].e2eSpec)
    /\ summary.pass = 0
    /\ summary.total = Len(evidence)
    /\ summary.fail = Cardinality({i \in DOMAIN cards : cards[i].status = "FAIL"})
    /\ summary.needsReview = summary.total - summary.fail
    /\ summary.criticalFailures = summary.fail

\* a screen with every generated file in place is NEEDS_REVIEW for its
\* visual dimension alone, next to a screen without an E2E spec
C30_Witness ==
  /\ spc = "scored"
  /\ Len(cards) = 2
  /\ cards[1].failedDimensions = <<"visual">>
  /\ cards[1].status = "NEEDS_REVIEW"
  /\ evidence[2].manifest /\ evidence[2].page /\ ~evidence[2].e2eSpec
  /\ cards[2].status = "FAIL"
  /\ summary.needsReview = 1 /\ summary.fail = 1 /\ summary.criticalFailures = 1

====
